---- MODULE Spec2Model ----
(***************************************************************************)
(* Model of oh-my-opencode-slim's configuration core:                      *)
(*   - stripJsonComments (src/src/cli/config-manager.ts)                   *)
(*   - extractChannel, getConfigPaths, findPluginEntry,                    *)
(*     updatePinnedVersion, getLatestVersion                               *)
(*     (src/src/hooks/auto-update-checker/checker.ts)                      *)
(* Texts are sequences of one-character strings.                           *)
(***************************************************************************)
EXTENDS Integers, Sequences, FiniteSets, TLC

VARIABLES
    \* --- stripJsonComments ---
    json,       \* the JSONC text handed to stripJsonComments
    toks,       \* the tokens of the JSON value the text serialises (noise excluded)
    lits,       \* the string literals written into json, in order
    sPc,        \* "open" | "elems" | "closed" | "stripped"
    stripped,   \* the text stripJsonComments returned
    \* --- extractChannel ---
    version,    \* the version token handed to extractChannel (Null for null)
    nPieces,    \* how many pieces the token was put together from
    cPc,        \* "token" | "classified"
    channel,    \* the channel extractChannel returned
    \* --- updatePinnedVersion ---
    file,       \* the text of the config file on disk (Null: no such file)
    dPc,        \* "prefix" | "entries" | "built": how far the file is written out
    nEntries,   \* plugin array elements written out so far
    pPc,        \* per process: "idle" | "called" | "read" | "done"
    pArgs,      \* per process: [oldEntry, newVersion] of its call
    fileAtCall, \* per process: the file when it called updatePinnedVersion
    pContent,   \* per process: content, what readFileSync returned
    pResult,    \* per process: what updatePinnedVersion returned
    pWrote,     \* per process: the text it gave writeFileSync (Null: none)
    pReplaced,  \* per process: the file text its write replaced
    \* --- findPluginEntry ---
    platform,       \* process.platform
    userConfigDir,  \* USER_CONFIG_DIR
    appdataDir,     \* process.env.APPDATA ?? ~/AppData/Roaming ("" when set empty)
    fs,             \* config path -> what reading and parsing the file there gives
    fPc,            \* "files" | "done"
    found,          \* what findPluginEntry returned: <<>> for null, <<info>> otherwise
    \* --- getLatestVersion ---
    gPc,        \* "idle" | "fetching" | "body" | "returned"
    gChannel,   \* the channel parameter
    gResponse,  \* the response fetch resolved with
    gTimer,     \* the timeout timer: "none" | "armed" | "fired" | "cleared"
    gAborted,   \* controller.signal.aborted
    gEnded,     \* how the call ended: "none" | "value" | "not-ok" | "network-error"
                \*   | "abort" | "bad-body"
    gThrew,     \* the promise rejected instead of resolving
    gResult,    \* the value the promise resolved with (Null for null)
    \* --- fetchLatestVersion ---
    lPc,        \* "idle" | "fetching" | "body" | "returned"
    lResponse,  \* the response fetch resolved with
    lEnded,     \* how the call ended: "none" | "value" | "not-ok" | "network-error"
                \*   | "bad-body"
    lThrew,     \* the promise rejected instead of resolving
    lResult,    \* the value the promise resolved with (Null for null or undefined)
    \* --- the config manager's file operations ---
    cDir,       \* the config directory: "exists" | "missing" | "blocked" (mkdir fails)
    cFiles,     \* file name -> its text (Null: no such file)
    cCalls,     \* operations called so far
    cOp,        \* the last operation called: its name and its installConfig
    cOut,       \* what the last operation returned, or that it threw
    cPrev,      \* cFiles as the last operation found them
    cAdded,     \* addPluginToOpenCodeConfig has returned success
    cOthers,    \* the other plugins' entries in the config when it first did
    cLite       \* <<c>>: the installConfig the lite config was last written from

stripVars == <<json, toks, lits, sPc, stripped>>
chanVars  == <<version, nPieces, cPc, channel>>

patchVars == <<file, dPc, nEntries, pPc, pArgs, fileAtCall, pContent, pResult,
               pWrote, pReplaced>>

findVars == <<platform, userConfigDir, appdataDir, fs, fPc, found>>

fetchVars == <<gPc, gChannel, gResponse, gTimer, gAborted, gEnded, gThrew, gResult>>

lookVars == <<lPc, lResponse, lEnded, lThrew, lResult>>

cfgVars == <<cDir, cFiles, cCalls, cOp, cOut, cPrev, cAdded, cOthers, cLite>>

vars == <<stripVars, chanVars, patchVars, findVars, fetchVars, lookVars, cfgVars>>

\* null / undefined: distinct from every text, whose members are single characters
Null == <<"null">>

(***************************************************************************)
(* Characters                                                              *)
(***************************************************************************)
Q  == "\""
BS == "\\"
NL == "\n"
CR == "\r"
SP == " "

Slice(t, from, to) == [k \in 1..(to - from + 1) |-> t[from + k - 1]]

At(t, p) == IF p >= 1 /\ p <= Len(t) THEN t[p] ELSE "EOF"

(***************************************************************************)
(* stripJsonComments: two String.prototype.replace passes with global      *)
(* regular expressions.  A global replace scans left to right; at each     *)
(* position the alternatives are tried in order; a match is consumed and   *)
(* the scan resumes after it; an unmatched character is copied.            *)
(***************************************************************************)

\* "." of a JavaScript regular expression: anything but a line terminator.
IsLineTerminator(c) == c \in {NL, CR}

\* \s of a JavaScript regular expression (the members the model's texts use).
IsWhiteSpace(c) == c \in {SP, NL, CR, "\t"}

\* Where the star of (?:\\"|[^"])*" started at p stops: at a quote it cannot
\* take as the second half of an escaped quote (the alternatives are tried in
\* order, so a backslash before a quote is always taken with it).
StarStopsAt(t, p, e) == t[e] = Q /\ (e = p \/ t[e - 1] # BS)

\* (?:\\"|[^"])*" started at p: the index of the closing quote the
\* backtracking matcher settles on (greedy star, alternatives in order),
\* 0 when there is no match.  The star stops at the first quote it cannot
\* take as part of an escaped quote, and the pattern's own quote matches
\* there; when the star reaches the end instead, the matcher backs up to the
\* last escaped quote it took, reads its backslash as [^"] and its quote as
\* the closing one.
StringBodyEnd(t, p) ==
    IF \E e \in p..Len(t) : StarStopsAt(t, p, e)
    THEN CHOOSE e \in p..Len(t) :
             StarStopsAt(t, p, e) /\ \A f \in p..(e - 1) : ~StarStopsAt(t, p, f)
    ELSE IF \E e \in p..Len(t) : t[e] = Q
    THEN CHOOSE e \in p..Len(t) : t[e] = Q /\ \A f \in (e + 1)..Len(t) : t[f] # Q
    ELSE 0

\* The two alternatives both patterns begin with: \\" and "(?:\\"|[^"])*".
\* The index of the last character matched at p, 0 when neither matches.
KeptMatchEnd(t, p) ==
    IF At(t, p) = BS /\ At(t, p + 1) = Q THEN p + 1
    ELSE IF At(t, p) = Q THEN StringBodyEnd(t, p + 1)
    ELSE 0

\* \/\/.* at p: the last character before the next line terminator.
RECURSIVE LineCommentEnd(_, _)
LineCommentEnd(t, p) ==
    IF p + 1 > Len(t) \/ IsLineTerminator(t[p + 1]) THEN p
    ELSE LineCommentEnd(t, p + 1)

\* \/\*[\s\S]*?\*\/ : the index of the "/" of the first "*/" at or after p,
\* 0 when the comment is never closed.
RECURSIVE BlockCommentEnd(_, _)
BlockCommentEnd(t, p) ==
    IF p + 1 > Len(t) THEN 0
    ELSE IF t[p] = "*" /\ t[p + 1] = "/" THEN p + 1
    ELSE BlockCommentEnd(t, p + 1)

\* Capture group 1 of commentPattern at p: the end of the comment, or 0.
CommentEnd(t, p) ==
    IF At(t, p) = "/" /\ At(t, p + 1) = "/" THEN LineCommentEnd(t, p + 1)
    ELSE IF At(t, p) = "/" /\ At(t, p + 1) = "*" THEN BlockCommentEnd(t, p + 2)
    ELSE 0

\* One step of a global replace on the scan s (s.out written so far, s.p the
\* position): a match is consumed, an unmatched character copied.
CommentStep(t, s) ==
    LET p == s.p
        kept == KeptMatchEnd(t, p)
        cmt  == CommentEnd(t, p)
    IN  IF p > Len(t) THEN s
        ELSE IF kept # 0 THEN [out |-> s.out \o Slice(t, p, kept), p |-> kept + 1]
        ELSE IF cmt # 0 THEN [out |-> s.out, p |-> cmt + 1]
        ELSE [out |-> Append(s.out, t[p]), p |-> p + 1]

\* Up to n steps, a quarter at a time, until the scan is past the end.
RECURSIVE CommentSteps(_, _, _)
CommentSteps(t, s, n) ==
    IF n <= 1 THEN CommentStep(t, s)
    ELSE LET m == (n + 3) \div 4
             a == CommentSteps(t, s, m)
             b == CommentSteps(t, a, m)
             c == CommentSteps(t, b, m)
         IN  IF a.p > Len(t) THEN a
             ELSE IF b.p > Len(t) THEN b
             ELSE IF c.p > Len(t) THEN c
             ELSE CommentSteps(t, c, n - 3 * m)

\* json.replace(commentPattern, (match, g) => g ? "" : match), from p on:
\* no scan takes more steps than there are characters.
ReplaceComments(t, p) == CommentSteps(t, [out |-> <<>>, p |-> p], Len(t)).out

\* \s*[}\]] at p: the index of the closing brace or bracket, 0 when absent.
RECURSIVE ClosingEnd(_, _)
ClosingEnd(t, p) ==
    IF p > Len(t) THEN 0
    ELSE IF t[p] \in {"}", "]"} THEN p
    ELSE IF IsWhiteSpace(t[p]) THEN ClosingEnd(t, p + 1)
    ELSE 0

TrailingCommaStep(t, s) ==
    LET p == s.p
        kept  == KeptMatchEnd(t, p)
        close == IF At(t, p) = "," THEN ClosingEnd(t, p + 1) ELSE 0
    IN  IF p > Len(t) THEN s
        ELSE IF kept # 0 THEN [out |-> s.out \o Slice(t, p, kept), p |-> kept + 1]
        ELSE IF close # 0 THEN [out |-> s.out \o Slice(t, p + 1, close), p |-> close + 1]
        ELSE [out |-> Append(s.out, t[p]), p |-> p + 1]

RECURSIVE TrailingCommaSteps(_, _, _)
TrailingCommaSteps(t, s, n) ==
    IF n <= 1 THEN TrailingCommaStep(t, s)
    ELSE LET m == (n + 3) \div 4
             a == TrailingCommaSteps(t, s, m)
             b == TrailingCommaSteps(t, a, m)
             c == TrailingCommaSteps(t, b, m)
         IN  IF a.p > Len(t) THEN a
             ELSE IF b.p > Len(t) THEN b
             ELSE IF c.p > Len(t) THEN c
             ELSE TrailingCommaSteps(t, c, n - 3 * m)

\* .replace(trailingCommaPattern, (match, comma, closing) => comma ? closing : match)
ReplaceTrailingCommas(t, p) ==
    TrailingCommaSteps(t, [out |-> <<>>, p |-> p], Len(t)).out

stripJsonComments(t) == ReplaceTrailingCommas(ReplaceComments(t, 1), 1)

(***************************************************************************)
(* Inputs of stripJsonComments: a JSON array of strings or a JSON object   *)
(* with string members, serialised with comments, whitespace and a         *)
(* trailing comma between its tokens.                                      *)
(***************************************************************************)
MaxElems == 2

nonStripVars == <<chanVars, patchVars, findVars, fetchVars, lookVars, cfgVars>>

ChanIdle == version = Null /\ nPieces = 0 /\ cPc = "idle" /\ channel = Null

Procs == {1, 2}

NoResponse == [ok |-> FALSE, kind |-> "none", tags |-> <<>>]

FetchIdle ==
    /\ gPc = "off" /\ gChannel = Null /\ gResponse = NoResponse /\ gTimer = "none"
    /\ gAborted = FALSE /\ gEnded = "none" /\ gThrew = FALSE /\ gResult = Null

NoManifest == [ok |-> FALSE, kind |-> "none", version |-> Null]

LookIdle ==
    /\ lPc = "off" /\ lResponse = NoManifest /\ lEnded = "none"
    /\ lThrew = FALSE /\ lResult = Null

NoFiles == [f \in {"json", "jsonc", "lite", "litec"} |-> Null]

NoCall == [name |-> "none", hasAntigravity |-> FALSE, hasOpenAI |-> FALSE,
           hasCerebras |-> FALSE, hasTmux |-> FALSE]

NoOutcome == [threw |-> FALSE, success |-> FALSE, isInstalled |-> FALSE,
              hasAntigravity |-> FALSE, hasOpenAI |-> FALSE, hasCerebras |-> FALSE,
              hasTmux |-> FALSE]

CfgIdle ==
    /\ cDir = "off" /\ cFiles = NoFiles /\ cCalls = 0 /\ cOp = NoCall
    /\ cOut = NoOutcome /\ cPrev = NoFiles /\ cAdded = FALSE /\ cOthers = <<>>
    /\ cLite = <<>>

FindIdle ==
    /\ platform = "none" /\ userConfigDir = "none" /\ appdataDir = "none"
    /\ fs = <<>> /\ fPc = "idle" /\ found = <<>>

PatchIdle ==
    /\ file = Null /\ dPc = "idle" /\ nEntries = 0
    /\ pPc = [p \in Procs |-> "off"]
    /\ pArgs = [p \in Procs |-> Null]
    /\ fileAtCall = [p \in Procs |-> Null]
    /\ pContent = [p \in Procs |-> Null]
    /\ pResult = [p \in Procs |-> FALSE]
    /\ pWrote = [p \in Procs |-> Null]
    /\ pReplaced = [p \in Procs |-> Null]

\* "a"  "//"  "/*"  ",]"  ",}"  "a\""  "a\\"
StringLiterals ==
    { <<Q, "a", Q>>,
      <<Q, "/", "/", Q>>,
      <<Q, "/", "*", Q>>,
      <<Q, ",", "]", Q>>,
      <<Q, ",", "}", Q>>,
      <<Q, "a", BS, Q, Q>>,
      <<Q, "a", BS, BS, Q>> }

KeyLiteral == <<Q, "k", Q>>

\* nothing, a space, a line comment ended by CRLF, a line comment holding a
\* quote, a block comment, a block comment holding ",]"
Noise ==
    { <<>>,
      <<SP>>,
      <<"/", "/", "c", CR, NL>>,
      <<"/", "/", Q, NL>>,
      <<"/", "*", "c", NL, "*", "/">>,
      <<"/", "*", ",", "]", "*", "/">> }

Opener == {"[", "{"}
CloserOf(o) == IF o = "[" THEN "]" ELSE "}"

NumElems == Len(lits)

OpenDoc(o) ==
    /\ sPc = "open"
    /\ json' = <<o>>
    /\ toks' = << <<o>> >>
    /\ sPc' = "elems"
    /\ UNCHANGED <<lits, stripped>>
    /\ UNCHANGED nonStripVars

\* One more array element: [","] literal noise
AddElement(lit, n) ==
    /\ sPc = "elems"
    /\ json[1] = "["
    /\ NumElems < MaxElems
    /\ LET sep == IF NumElems = 0 THEN <<>> ELSE <<",">>
           septok == IF NumElems = 0 THEN <<>> ELSE << <<",">> >>
       IN  /\ json' = json \o sep \o lit \o n
           /\ toks' = toks \o septok \o <<lit>>
    /\ lits' = Append(lits, lit)
    /\ UNCHANGED <<sPc, stripped>>
    /\ UNCHANGED nonStripVars

\* One more object member: [","] "k" noise ":" literal noise
AddMember(lit, n) ==
    /\ sPc = "elems"
    /\ json[1] = "{"
    /\ NumElems < 2 * MaxElems
    /\ LET sep == IF NumElems = 0 THEN <<>> ELSE <<",">>
           septok == IF NumElems = 0 THEN <<>> ELSE << <<",">> >>
       IN  /\ json' = json \o sep \o KeyLiteral \o n \o <<":">> \o lit \o n
           /\ toks' = toks \o septok \o <<KeyLiteral, <<":">>, lit>>
    /\ lits' = lits \o <<KeyLiteral, lit>>
    /\ UNCHANGED <<sPc, stripped>>
    /\ UNCHANGED nonStripVars

\* The closing bracket, after an optional trailing comma and noise.
CloseDoc(trailing, n) ==
    /\ sPc = "elems"
    /\ trailing => NumElems > 0
    /\ json' = json \o (IF trailing THEN <<",">> ELSE <<>>) \o n \o <<CloserOf(json[1])>>
    /\ toks' = Append(toks, <<CloserOf(json[1])>>)
    /\ sPc' = "closed"
    /\ UNCHANGED <<lits, stripped>>
    /\ UNCHANGED nonStripVars

Strip ==
    /\ sPc = "closed"
    /\ stripped' = stripJsonComments(json)
    /\ sPc' = "stripped"
    /\ UNCHANGED <<json, toks, lits>>
    /\ UNCHANGED nonStripVars

StripIdle ==
    /\ json = <<>> /\ toks = <<>> /\ lits = <<>> /\ sPc = "idle" /\ stripped = <<>>

InitStrip ==
    /\ json = <<>> /\ toks = <<>> /\ lits = <<>> /\ sPc = "open" /\ stripped = <<>>
    /\ ChanIdle
    /\ PatchIdle
    /\ FindIdle
    /\ FetchIdle
    /\ LookIdle
    /\ CfgIdle

NextStrip ==
    \/ \E o \in Opener : OpenDoc(o)
    \/ \E lit \in StringLiterals, n \in Noise : AddElement(lit, n)
    \/ \E lit \in StringLiterals, n \in Noise : AddMember(lit, n)
    \/ \E trailing \in BOOLEAN, n \in Noise : CloseDoc(trailing, n)
    \/ Strip

SpecStrip == InitStrip /\ [][NextStrip]_vars

(***************************************************************************)
(* Strict JSON lexing, used to state what a text's tokens and string       *)
(* literals are (RFC 8259: a backslash escapes the character after it).    *)
(***************************************************************************)
RECURSIVE JsonStringEnd(_, _)
JsonStringEnd(t, p) ==
    IF p > Len(t) THEN 0
    ELSE IF t[p] = BS THEN JsonStringEnd(t, p + 2)
    ELSE IF t[p] = Q THEN p
    ELSE JsonStringEnd(t, p + 1)

Invalid == <<"invalid">>

RECURSIVE JsonTokens(_, _)
JsonTokens(t, p) ==
    IF p > Len(t) THEN <<>>
    ELSE IF IsWhiteSpace(t[p]) THEN JsonTokens(t, p + 1)
    ELSE IF t[p] \in {"[", "]", "{", "}", ",", ":"} THEN <<(<<t[p]>>)>> \o JsonTokens(t, p + 1)
    ELSE IF t[p] = Q /\ JsonStringEnd(t, p + 1) # 0
         THEN <<Slice(t, p, JsonStringEnd(t, p + 1))>> \o JsonTokens(t, JsonStringEnd(t, p + 1) + 1)
    ELSE <<Invalid>>

IsStringToken(tok) == tok[1] = Q

\* C1: stripJsonComments passes every double-quoted string literal through
\* unchanged: the string literals of its output are the string literals
\* written into its input, character for character and in order.
C1_StringsPreserved ==
    sPc = "stripped" => SelectSeq(JsonTokens(stripped, 1), IsStringToken) = lits

\* C2: for a valid JSON value serialised with comments and trailing commas
\* between its tokens, the output of stripJsonComments is strict JSON with
\* exactly the value's tokens, so it parses to the same value.
C2_ParsesToSameValue ==
    sPc = "stripped" => JsonTokens(stripped, 1) = toks

(***************************************************************************)
(* extractChannel (checker.ts 18-40)                                       *)
(***************************************************************************)
Digits == {"0", "1", "2", "3", "4", "5", "6", "7", "8", "9"}

Latest == <<"l", "a", "t", "e", "s", "t">>

\* The alternation of /^(alpha|beta|rc|canary|next)/, in its order.
KnownChannels ==
    << <<"a", "l", "p", "h", "a">>,
       <<"b", "e", "t", "a">>,
       <<"r", "c">>,
       <<"c", "a", "n", "a", "r", "y">>,
       <<"n", "e", "x", "t">> >>

\* version.includes("-")
isPrereleaseVersion(v) == \E i \in 1..Len(v) : v[i] = "-"

\* !/^\d/.test(version)
isDistTag(v) == ~(Len(v) >= 1 /\ v[1] \in Digits)

\* version.split("-"): the segments between the dashes
RECURSIVE SplitDash(_, _)
SplitDash(v, cur) ==
    IF v = <<>> THEN <<cur>>
    ELSE IF Head(v) = "-" THEN <<cur>> \o SplitDash(Tail(v), <<>>)
    ELSE SplitDash(Tail(v), Append(cur, Head(v)))

\* version.split("-")[1]; undefined (Null) when there is no second segment
PrereleasePart(v) ==
    LET segs == SplitDash(v, <<>>) IN IF Len(segs) >= 2 THEN segs[2] ELSE Null

StartsWith(t, pre) == Len(pre) <= Len(t) /\ SubSeq(t, 1, Len(pre)) = pre

\* An unanchored search: the bug of dropping the ^ of the pattern.
ChannelMatchAnywhere(part) ==
    LET hits == {k \in 1..Len(KnownChannels) :
                    \E i \in 1..Len(part) :
                        StartsWith(SubSeq(part, i, Len(part)), KnownChannels[k])}
    IN  IF hits = {} THEN Null
        ELSE KnownChannels[CHOOSE k \in hits : \A j \in hits : k <= j]

\* prereleasePart.match(/^(alpha|beta|rc|canary|next)/): group 1 of the first
\* alternative that matches at the start, Null when none does
ChannelMatch(part) ==
    LET hits == {k \in 1..Len(KnownChannels) : StartsWith(part, KnownChannels[k])}
    IN  IF hits = {} THEN Null
        ELSE KnownChannels[CHOOSE k \in hits : \A j \in hits : k <= j]

extractChannel(v) ==
    IF v = Null \/ v = <<>> THEN Latest
    ELSE IF isDistTag(v) THEN v
    ELSE IF isPrereleaseVersion(v)
              /\ PrereleasePart(v) # Null /\ PrereleasePart(v) # <<>>
              /\ ChannelMatch(PrereleasePart(v)) # Null
         THEN ChannelMatch(PrereleasePart(v))
    ELSE Latest

(***************************************************************************)
(* Version tokens: null, or pieces of versions and dist-tags put together. *)
(***************************************************************************)
MaxPieces == 4

TokenPieces ==
    { <<"1">>, <<".">>, <<"-">>, <<"r">>, <<"c">>,
      <<"b", "e", "t", "a">>, <<"a", "l", "p", "h", "a">>,
      <<"c", "a", "n", "a", "r", "y">>, <<"n", "e", "x", "t">> }

nonChanVars == <<stripVars, patchVars, findVars, fetchVars, lookVars, cfgVars>>

AppendPiece(piece) ==
    /\ cPc = "token"
    /\ version # Null
    /\ nPieces < MaxPieces
    /\ version' = version \o piece
    /\ nPieces' = nPieces + 1
    /\ UNCHANGED <<cPc, channel>>
    /\ UNCHANGED nonChanVars

Classify ==
    /\ cPc = "token"
    /\ channel' = extractChannel(version)
    /\ cPc' = "classified"
    /\ UNCHANGED <<version, nPieces>>
    /\ UNCHANGED nonChanVars

InitChannel ==
    /\ version \in {Null, <<>>}
    /\ nPieces = 0
    /\ cPc = "token"
    /\ channel = Null
    /\ StripIdle
    /\ PatchIdle
    /\ FindIdle
    /\ FetchIdle
    /\ LookIdle
    /\ CfgIdle

NextChannel ==
    \/ \E piece \in TokenPieces : AppendPiece(piece)
    \/ Classify

SpecChannel == InitChannel /\ [][NextChannel]_vars

(***************************************************************************)
(* The classifier as specified, taking the whole substring after the       *)
(* first "-".                                                              *)
(***************************************************************************)
RECURSIVE AfterFirstDash(_)
AfterFirstDash(v) ==
    IF v = <<>> THEN <<>>
    ELSE IF Head(v) = "-" THEN Tail(v)
    ELSE AfterFirstDash(Tail(v))

ChannelSet == {KnownChannels[k] : k \in 1..Len(KnownChannels)}

SpecifiedChannel(v) ==
    IF v = Null \/ v = <<>> THEN Latest
    ELSE IF v[1] \notin Digits THEN v
    ELSE IF (\E i \in 1..Len(v) : v[i] = "-")
              /\ (\E c \in ChannelSet : StartsWith(AfterFirstDash(v), c))
         THEN CHOOSE c \in ChannelSet : StartsWith(AfterFirstDash(v), c)
    ELSE Latest

\* C7: for every version token extractChannel equals the specified
\* classifier: null or missing (empty) gives "latest", a token that does not
\* begin with a digit is returned verbatim, a digit-led token with a "-"
\* gives the known channel that prefixes the substring after the first "-",
\* and everything else gives "latest".
C7_ChannelAsSpecified ==
    cPc = "classified" => channel = SpecifiedChannel(version)

\* A digit-led token with two dashes whose prerelease segment names a channel
\* has been classified as that channel.
C7_Witness ==
    /\ cPc = "classified"
    /\ version = <<"1", "-", "b", "e", "t", "a", "-">>
    /\ channel = <<"b", "e", "t", "a">>

(***************************************************************************)
(* updatePinnedVersion (checker.ts 185-233).  Indices are JavaScript's,    *)
(* counted from 0: character i of a text t is t[i + 1].                    *)
(***************************************************************************)
PACKAGE_NAME ==
    <<"o", "h", "-", "m", "y", "-", "o", "p", "e", "n", "c", "o", "d", "e",
      "-", "s", "l", "i", "m">>

PluginKey == <<Q, "p", "l", "u", "g", "i", "n", Q>>

\* content.slice(a, b), for a, b >= 0: indices past the end stop at the end
JsSlice(t, a, b) ==
    LET hi == IF b > Len(t) THEN Len(t) ELSE b
    IN  IF a >= hi THEN <<>> ELSE SubSeq(t, a + 1, hi)

\* \s* from index i: the index of the first character that is not white space
RECURSIVE SkipWhiteSpace(_, _)
SkipWhiteSpace(t, i) ==
    IF i < Len(t) /\ IsWhiteSpace(t[i + 1]) THEN SkipWhiteSpace(t, i + 1) ELSE i

\* /"plugin"\s*:\s*\[/ tried at index i: the length of the match, 0 for none
PluginMatchLength(t, i) ==
    IF ~StartsWith(JsSlice(t, i, Len(t)), PluginKey) THEN 0
    ELSE LET colon == SkipWhiteSpace(t, i + Len(PluginKey))
             open  == SkipWhiteSpace(t, colon + 1)
         IN  IF At(t, colon + 1) = ":" /\ At(t, open + 1) = "["
             THEN open + 1 - i
             ELSE 0

\* content.match(/"plugin"\s*:\s*\[/): the leftmost match
PluginMatch(t) ==
    LET hits == {i \in 0..(Len(t) - 1) : PluginMatchLength(t, i) > 0}
        first == CHOOSE i \in hits : \A j \in hits : i <= j
    IN  IF hits = {} THEN [found |-> FALSE, index |-> 0, length |-> 0]
        ELSE [found |-> TRUE, index |-> first, length |-> PluginMatchLength(t, first)]

\* for (let i = startIdx; i < content.length && bracketCount > 0; i++) {...}
\* the value of endIdx when the loop ends
RECURSIVE BracketScan(_, _, _, _)
BracketScan(t, i, bracketCount, endIdx) ==
    IF i < Len(t) /\ bracketCount > 0
    THEN BracketScan(t, i + 1,
                     IF t[i + 1] = "[" THEN bracketCount + 1
                     ELSE IF t[i + 1] = "]" THEN bracketCount - 1
                     ELSE bracketCount,
                     i)
    ELSE endIdx

RegExpSpecials == {".", "*", "+", "?", "^", "$", "{", "}", "(", ")", "|", "[", "]", BS}

\* oldEntry.replace(/[.*+?^${}()|[\]\\]/g, "\\$&")
RECURSIVE EscapeRegExp(_)
EscapeRegExp(e) ==
    IF e = <<>> THEN <<>>
    ELSE (IF Head(e) \in RegExpSpecials THEN <<BS, Head(e)>> ELSE <<Head(e)>>)
         \o EscapeRegExp(Tail(e))

\* The bug of building the pattern from the entry as it is.
NoEscape(e) == e

\* escapedOldEntry of checker.ts 210
EscapedOldEntry(e) == EscapeRegExp(e)

\* new RegExp(source) for the sources the entries give: a backslash makes the
\* next character a literal, "." matches any character but a line terminator,
\* any other character is a literal
RECURSIVE RegExpAtoms(_)
RegExpAtoms(src) ==
    IF src = <<>> THEN <<>>
    ELSE IF Head(src) = BS /\ Len(src) >= 2
         THEN <<[any |-> FALSE, ch |-> src[2]]>> \o RegExpAtoms(Tail(Tail(src)))
    ELSE IF Head(src) = "."
         THEN <<[any |-> TRUE, ch |-> "."]>> \o RegExpAtoms(Tail(src))
    ELSE <<[any |-> FALSE, ch |-> Head(src)]>> \o RegExpAtoms(Tail(src))

AtomMatches(a, c) == IF a.any THEN ~IsLineTerminator(c) ELSE c = a.ch

QuoteChars == {Q, "'"}

\* ["']<atoms>["'] matched at position p (from 1) of t
EntryRegexMatchesAt(t, p, atoms) ==
    /\ p >= 1
    /\ p + Len(atoms) + 1 <= Len(t)
    /\ t[p] \in QuoteChars
    /\ \A k \in 1..Len(atoms) : AtomMatches(atoms[k], t[p + k])
    /\ t[p + Len(atoms) + 1] \in QuoteChars

\* The position of the leftmost match of the entry pattern in t, 0 for none
EntryRegexSearch(t, atoms) ==
    LET hits == {p \in 1..Len(t) : EntryRegexMatchesAt(t, p, atoms)}
    IN  IF hits = {} THEN 0 ELSE CHOOSE p \in hits : \A q \in hits : p <= q

\* The bug of replacing the last match instead of the first.
ReplaceLastEntry(t, atoms, newEntry) ==
    LET hits == {p \in 1..Len(t) : EntryRegexMatchesAt(t, p, atoms)}
        p == CHOOSE q \in hits : \A r \in hits : r <= q
    IN  IF hits = {} THEN t
        ELSE SubSeq(t, 1, p - 1) \o <<Q>> \o newEntry \o <<Q>>
             \o JsSlice(t, p + Len(atoms) + 1, Len(t))

\* pluginArrayContent.replace(regex, `"${newEntry}"`): the first match replaced
ReplaceEntry(t, atoms, newEntry) ==
    LET p == EntryRegexSearch(t, atoms)
    IN  IF p = 0 THEN t
        ELSE SubSeq(t, 1, p - 1) \o <<Q>> \o newEntry \o <<Q>>
             \o JsSlice(t, p + Len(atoms) + 1, Len(t))

NewEntry(newVersion) == PACKAGE_NAME \o <<"@">> \o newVersion

\* The bug of stopping at the first "]" whatever the depth.
FirstCloseEnd(content, startIdx) ==
    LET closes == {i \in startIdx..(Len(content) - 1) : content[i + 1] = "]"}
    IN  IF closes = {} THEN BracketScan(content, startIdx, 1, startIdx)
        ELSE CHOOSE i \in closes : \A j \in closes : i <= j

\* endIdx of checker.ts 197-204
PluginArrayEnd(content, startIdx) == BracketScan(content, startIdx, 1, startIdx)

\* The body of updatePinnedVersion once the file is read:
\* [result |-> what it returns, write |-> the text it writes, Null for no write]
PatchContent(content, oldEntry, newVersion) ==
    LET pluginMatch == PluginMatch(content)
        startIdx == pluginMatch.index + pluginMatch.length
        endIdx   == PluginArrayEnd(content, startIdx)
        before   == JsSlice(content, 0, startIdx)
        pluginArrayContent == JsSlice(content, startIdx, endIdx)
        after    == JsSlice(content, endIdx, Len(content))
        regex    == RegExpAtoms(EscapedOldEntry(oldEntry))
        updatedPluginArray == ReplaceEntry(pluginArrayContent, regex, NewEntry(newVersion))
        updatedContent == before \o updatedPluginArray \o after
    IN  IF ~pluginMatch.found THEN [result |-> FALSE, write |-> Null]
        ELSE IF EntryRegexSearch(pluginArrayContent, regex) = 0
             THEN [result |-> FALSE, write |-> Null]
        ELSE IF updatedContent = content THEN [result |-> FALSE, write |-> Null]
        ELSE [result |-> TRUE, write |-> updatedContent]

(***************************************************************************)
(* Config files for updatePinnedVersion, written out piece by piece.       *)
(***************************************************************************)
MaxEntries == 2

V10 == <<"1", ".", "0">>
V11 == <<"1", ".", "1">>
V12 == <<"1", ".", "2">>

Quoted(qc, e) == <<qc>> \o e \o <<qc>>

\* {   and   {"a":["oh-my-opencode-slim@1.0"],
DocPrefixes ==
    { <<"{">>,
      <<"{">> \o <<Q, "a", Q, ":", "[">> \o Quoted(Q, NewEntry(V10)) \o <<"]", ",">> }

\* "plugin":[   "plugin" : [   "plugins":[
DocKeys ==
    { PluginKey \o <<":", "[">>,
      PluginKey \o <<SP, ":", NL, "[">>,
      <<Q, "p", "l", "u", "g", "i", "n", "s", Q, ":", "[">> }

\* array elements: the entry at 1.0 in double and in single quotes, an entry
\* that differs from it where it has its ".", the entry in a nested array,
\* the entry inside a comment
DocEntries ==
    { Quoted(Q, NewEntry(V10)),
      Quoted("'", NewEntry(V10)),
      Quoted(Q, PACKAGE_NAME \o <<"@", "1", "x", "0">>),
      <<"[">> \o Quoted(Q, NewEntry(V10)) \o <<"]">>,
      <<"/", "*">> \o Quoted(Q, NewEntry(V10)) \o <<"*", "/">> \o Quoted(Q, <<"x">>) }

\* ]}   ,\n]}   ],"z":["oh-my-opencode-slim@1.0"]}   and a file cut short
DocSuffixes ==
    { <<"]", "}">>,
      <<",", NL, "]", "}">>,
      <<"]", ",", Q, "z", Q, ":", "[">> \o Quoted(Q, NewEntry(V10)) \o <<"]", "}">>,
      <<>> }

OldEntries == {NewEntry(V10), NewEntry(V11)}
NewVersions == {V10, V11}

nonPatchVars == <<stripVars, chanVars, findVars, fetchVars, lookVars, cfgVars>>
procVars == <<pPc, pArgs, fileAtCall, pContent, pResult, pWrote, pReplaced>>

StartDoc(prefix, key) ==
    /\ dPc = "prefix"
    /\ file' = prefix \o key
    /\ dPc' = "entries"
    /\ UNCHANGED <<nEntries, procVars>>
    /\ UNCHANGED nonPatchVars

AddEntry(e) ==
    /\ dPc = "entries"
    /\ nEntries < MaxEntries
    /\ file' = file \o (IF nEntries = 0 THEN <<>> ELSE <<",">>) \o e
    /\ nEntries' = nEntries + 1
    /\ UNCHANGED <<dPc, procVars>>
    /\ UNCHANGED nonPatchVars

EndDoc(suffix) ==
    /\ dPc = "entries"
    /\ file' = file \o suffix
    /\ dPc' = "built"
    /\ UNCHANGED <<nEntries, procVars>>
    /\ UNCHANGED nonPatchVars

\* The config file does not exist.
NoDoc ==
    /\ dPc = "prefix"
    /\ file' = Null
    /\ dPc' = "built"
    /\ UNCHANGED <<nEntries, procVars>>
    /\ UNCHANGED nonPatchVars

\* updatePinnedVersion(configPath, oldEntry, newVersion) is called
Call(p, oldEntry, newVersion) ==
    /\ dPc = "built"
    /\ pPc[p] = "idle"
    /\ pPc' = [pPc EXCEPT ![p] = "called"]
    /\ pArgs' = [pArgs EXCEPT ![p] = <<oldEntry, newVersion>>]
    /\ fileAtCall' = [fileAtCall EXCEPT ![p] = file]
    /\ UNCHANGED <<file, dPc, nEntries, pContent, pResult, pWrote, pReplaced>>
    /\ UNCHANGED nonPatchVars

\* checker.ts 187: readFileSync; a missing file throws, and the catch of
\* 229-232 returns false
ReadConfig(p) ==
    /\ pPc[p] = "called"
    /\ IF file = Null
       THEN /\ pPc' = [pPc EXCEPT ![p] = "done"]
            /\ pResult' = [pResult EXCEPT ![p] = FALSE]
            /\ UNCHANGED pContent
       ELSE /\ pPc' = [pPc EXCEPT ![p] = "read"]
            /\ pContent' = [pContent EXCEPT ![p] = file]
            /\ UNCHANGED pResult
    /\ UNCHANGED <<file, dPc, nEntries, pArgs, fileAtCall, pWrote, pReplaced>>
    /\ UNCHANGED nonPatchVars

\* checker.ts 188-228: locate, verify, replace, compare and write
PatchAndWrite(p) ==
    /\ pPc[p] = "read"
    /\ LET r == PatchContent(pContent[p], pArgs[p][1], pArgs[p][2])
       IN  /\ pResult' = [pResult EXCEPT ![p] = r.result]
           /\ IF r.write # Null
              THEN /\ file' = r.write
                   /\ pWrote' = [pWrote EXCEPT ![p] = r.write]
                   /\ pReplaced' = [pReplaced EXCEPT ![p] = file]
              ELSE UNCHANGED <<file, pWrote, pReplaced>>
    /\ pPc' = [pPc EXCEPT ![p] = "done"]
    /\ UNCHANGED <<dPc, nEntries, pArgs, fileAtCall, pContent>>
    /\ UNCHANGED nonPatchVars

\* checker.ts 226, 229-232: writeFileSync throws and the catch returns false
WriteFails(p) ==
    /\ pPc[p] = "read"
    /\ PatchContent(pContent[p], pArgs[p][1], pArgs[p][2]).write # Null
    /\ pResult' = [pResult EXCEPT ![p] = FALSE]
    /\ pPc' = [pPc EXCEPT ![p] = "done"]
    /\ UNCHANGED <<file, dPc, nEntries, pArgs, fileAtCall, pContent, pWrote, pReplaced>>
    /\ UNCHANGED nonPatchVars

\* One process patches a file nobody else touches.
InitPatch ==
    /\ file = <<>> /\ dPc = "prefix" /\ nEntries = 0
    /\ pPc = [p \in Procs |-> IF p = 1 THEN "idle" ELSE "off"]
    /\ pArgs = [p \in Procs |-> Null]
    /\ fileAtCall = [p \in Procs |-> Null]
    /\ pContent = [p \in Procs |-> Null]
    /\ pResult = [p \in Procs |-> FALSE]
    /\ pWrote = [p \in Procs |-> Null]
    /\ pReplaced = [p \in Procs |-> Null]
    /\ StripIdle
    /\ ChanIdle
    /\ FindIdle
    /\ FetchIdle
    /\ LookIdle
    /\ CfgIdle

NextPatch ==
    \/ \E prefix \in DocPrefixes, key \in DocKeys : StartDoc(prefix, key)
    \/ \E e \in DocEntries : AddEntry(e)
    \/ \E suffix \in DocSuffixes : EndDoc(suffix)
    \/ NoDoc
    \/ \E p \in Procs, o \in OldEntries, v \in NewVersions : Call(p, o, v)
    \/ \E p \in Procs : ReadConfig(p)
    \/ \E p \in Procs : PatchAndWrite(p)
    \/ \E p \in Procs : WriteFails(p)

SpecPatch == InitPatch /\ [][NextPatch]_vars

(***************************************************************************)
(* What the plugin array of a text is, stated without the scan loop: it    *)
(* opens at the "[" of the first "plugin" : [ and closes at the first "]"  *)
(* after which as many brackets are closed as were opened.  Positions are  *)
(* counted from 1.                                                         *)
(***************************************************************************)
\* the characters at positions a..b of t that exist
Span(t, a, b) ==
    LET lo == IF a < 1 THEN 1 ELSE a
        hi == IF b > Len(t) THEN Len(t) ELSE b
    IN  IF lo > hi THEN <<>> ELSE SubSeq(t, lo, hi)

AllWhiteSpace(t, a, b) == \A k \in a..b : IsWhiteSpace(t[k])

\* "plugin" starts at a, and its "[" is at o
IsPluginOpening(t, a, o) ==
    /\ Span(t, a, a + Len(PluginKey) - 1) = PluginKey
    /\ t[o] = "["
    /\ \E c \in (a + Len(PluginKey))..(o - 1) :
           /\ t[c] = ":"
           /\ AllWhiteSpace(t, a + Len(PluginKey), c - 1)
           /\ AllWhiteSpace(t, c + 1, o - 1)

PluginOpenings(t) ==
    {a \in 1..Len(t) :
        /\ Span(t, a, a + Len(PluginKey) - 1) = PluginKey
        /\ \E o \in a..Len(t) : IsPluginOpening(t, a, o)}

HasPluginArray(t) == t # Null /\ PluginOpenings(t) # {}

\* the position of the "[" of the first "plugin" : [
ArrayOpen(t) ==
    LET as == PluginOpenings(t)
        a0 == CHOOSE a \in as : \A b \in as : a <= b
    IN  CHOOSE o \in a0..Len(t) : IsPluginOpening(t, a0, o)

Count(t, a, b, c) == Cardinality({k \in a..b : t[k] = c})

\* the position of the "]" that matches the "[" at o, Len(t) + 1 when the
\* array is never closed
ArrayClose(t, o) ==
    LET closes == {j \in (o + 1)..Len(t) :
                      /\ t[j] = "]"
                      /\ Count(t, o + 1, j, "]") = Count(t, o + 1, j, "[") + 1}
    IN  IF closes = {} THEN Len(t) + 1 ELSE CHOOSE j \in closes : \A k \in closes : j <= k

\* entry stands at p in quotes of either kind
QuotedAt(t, p, entry) ==
    /\ t[p] \in QuoteChars
    /\ Span(t, p + 1, p + Len(entry)) = entry
    /\ At(t, p + Len(entry) + 1) \in QuoteChars

\* the positions where entry stands in quotes, all of it strictly between
\* the brackets of the plugin array
QuotedInArrayAt(t, entry) ==
    IF ~HasPluginArray(t) THEN {}
    ELSE LET o == ArrayOpen(t)
             c == ArrayClose(t, o)
         IN  {p \in (o + 1)..(c - Len(entry) - 2) : QuotedAt(t, p, entry)}

QuotedInArray(t, entry) == QuotedInArrayAt(t, entry) # {}

FirstQuotedInArray(t, entry) ==
    LET ps == QuotedInArrayAt(t, entry) IN CHOOSE p \in ps : \A q \in ps : p <= q

\* entry occurs in t somewhere in a..b
OccursWithin(t, a, b, entry) ==
    \E q \in a..b : Span(t, q, q + Len(entry) - 1) = entry

Returned(p) == pPc[p] = "done"

\* C3: called with a new entry equal to the old entry, on a document whose
\* plugin array holds that entry in single or in double quotes,
\* updatePinnedVersion returns false, writes nothing and leaves the file as
\* it was.
C3_SameEntryIsNoOp ==
    \A p \in Procs :
        (/\ Returned(p)
         /\ NewEntry(pArgs[p][2]) = pArgs[p][1]
         /\ QuotedInArray(fileAtCall[p], pArgs[p][1]))
        => (pResult[p] = FALSE /\ pWrote[p] = Null /\ file = fileAtCall[p])

\* C4: when the document has no "plugin" array, or the old entry is not a
\* quoted element inside the located array, updatePinnedVersion returns
\* false and never writes: the file after the call is the file before it.
C4_AbsentEntryNeverWrites ==
    \A p \in Procs :
        (/\ Returned(p)
         /\ fileAtCall[p] # Null
         /\ ~QuotedInArray(fileAtCall[p], pArgs[p][1]))
        => (pResult[p] = FALSE /\ pWrote[p] = Null /\ file = fileAtCall[p])

\* a call that found no quoted old entry in a document that has the entry
\* elsewhere has returned
C4_Witness ==
    /\ Returned(1)
    /\ fileAtCall[1] # Null
    /\ HasPluginArray(fileAtCall[1])
    /\ ~QuotedInArray(fileAtCall[1], pArgs[1][1])
    /\ OccursWithin(fileAtCall[1], 1, Len(fileAtCall[1]), pArgs[1][1])
    /\ pResult[1] = FALSE

\* C5: when updatePinnedVersion succeeds the written document is the
\* original with one span replaced, the first quoted occurrence of the old
\* entry inside the plugin array (by the new entry in double quotes), and
\* every character before and after that span is as it was.
C5_OneSpanReplaced ==
    \A p \in Procs :
        (Returned(p) /\ pResult[p] = TRUE)
        => /\ QuotedInArray(fileAtCall[p], pArgs[p][1])
           /\ LET doc  == fileAtCall[p]
                  at   == FirstQuotedInArray(doc, pArgs[p][1])
                  past == at + Len(pArgs[p][1]) + 2
              IN  /\ pWrote[p] = Span(doc, 1, at - 1)
                                 \o Quoted(Q, NewEntry(pArgs[p][2]))
                                 \o Span(doc, past, Len(doc))
                  /\ file = pWrote[p]

\* a successful patch of a document that holds the old entry twice in its
\* array, and once before and once after it
C5_Witness ==
    /\ Returned(1) /\ pResult[1] = TRUE
    /\ LET doc == fileAtCall[1]
       IN  /\ Cardinality(QuotedInArrayAt(doc, pArgs[1][1])) >= 2
           /\ OccursWithin(doc, 1, ArrayOpen(doc), pArgs[1][1])
           /\ OccursWithin(doc, ArrayClose(doc, ArrayOpen(doc)), Len(doc), pArgs[1][1])

\* startIdx of checker.ts 196 in a text that has a "plugin" : [
StartIdxOf(content) == PluginMatch(content).index + PluginMatch(content).length

\* the plugin array of t is closed: a "]" brings the depth back to zero
ArrayIsClosed(t) == HasPluginArray(t) /\ ArrayClose(t, ArrayOpen(t)) <= Len(t)

\* C13: in a document whose plugin array is closed, the locator of
\* updatePinnedVersion starts right after the "[" of the first "plugin" : [,
\* its end index is the position of exactly the "]" that returns the bracket
\* depth to zero, the slice searched is exactly the characters strictly
\* between the two, and an old entry standing only before the "[" or at or
\* after that "]" is neither matched nor replaced: the call returns false
\* and whatever a call writes, it leaves the text up to the "[" and from the
\* "]" on as it was.
C13_LocatorIsTheArray ==
    \A p \in Procs :
        (Returned(p) /\ ArrayIsClosed(fileAtCall[p]))
        => LET doc      == fileAtCall[p]
               open     == ArrayOpen(doc)
               close    == ArrayClose(doc, open)
               startIdx == StartIdxOf(doc)
               endIdx   == PluginArrayEnd(doc, startIdx)
           IN  /\ startIdx = open
               /\ endIdx + 1 = close
               /\ doc[endIdx + 1] = "]"
               /\ Count(doc, open + 1, close, "]") = Count(doc, open + 1, close, "[") + 1
               /\ JsSlice(doc, startIdx, endIdx) = Span(doc, open + 1, close - 1)
               /\ ~QuotedInArray(doc, pArgs[p][1])
                  => (pResult[p] = FALSE /\ pWrote[p] = Null)
               /\ pWrote[p] # Null
                  => /\ Span(pWrote[p], 1, open) = Span(doc, 1, open)
                     /\ Span(pWrote[p], Len(pWrote[p]) - (Len(doc) - close), Len(pWrote[p]))
                        = Span(doc, close, Len(doc))

\* a call has returned entry-not-found on a document with a closed plugin
\* array and the old entry in quotes both before the "[" and after the
\* matching "]" but nowhere between them
C13_Witness ==
    /\ Returned(1)
    /\ ArrayIsClosed(fileAtCall[1])
    /\ LET doc   == fileAtCall[1]
           open  == ArrayOpen(doc)
           close == ArrayClose(doc, open)
       IN  /\ ~QuotedInArray(doc, pArgs[1][1])
           /\ \E q \in 1..open : QuotedAt(doc, q, pArgs[1][1])
           /\ \E q \in close..Len(doc) : QuotedAt(doc, q, pArgs[1][1])
           /\ pResult[1] = FALSE /\ pWrote[1] = Null

(***************************************************************************)
(* Two processes call updatePinnedVersion on the same file.  Each call is  *)
(* synchronous inside its process; the file system is what they share, so  *)
(* the steps of one (readFileSync, then the rest up to writeFileSync) may  *)
(* fall between the steps of the other.                                    *)
(***************************************************************************)
RaceDocs ==
    { prefix \o (PluginKey \o <<":", "[">>) \o Quoted(qc, NewEntry(V10)) \o suffix :
        prefix \in DocPrefixes,
        qc \in QuoteChars,
        suffix \in { <<"]", "}">>, <<",", NL, "]", "}">> } }

RaceNewVersions == {V11, V12}

InitRace ==
    /\ file \in RaceDocs /\ dPc = "built" /\ nEntries = 1
    /\ pPc = [p \in Procs |-> "idle"]
    /\ pArgs = [p \in Procs |-> Null]
    /\ fileAtCall = [p \in Procs |-> Null]
    /\ pContent = [p \in Procs |-> Null]
    /\ pResult = [p \in Procs |-> FALSE]
    /\ pWrote = [p \in Procs |-> Null]
    /\ pReplaced = [p \in Procs |-> Null]
    /\ StripIdle
    /\ ChanIdle
    /\ FindIdle
    /\ FetchIdle
    /\ LookIdle
    /\ CfgIdle

NextRace ==
    \/ \E p \in Procs, o \in OldEntries, v \in RaceNewVersions : Call(p, o, v)
    \/ \E p \in Procs : ReadConfig(p)
    \/ \E p \in Procs : PatchAndWrite(p)
    \/ \E p \in Procs : WriteFails(p)

SpecRace == InitRace /\ [][NextRace]_vars

\* C6: a patcher whose file changed between its read and its write does not
\* write: every write replaces exactly the file content its process read, so
\* no change committed by the other process is lost.
C6_NoStaleWrite ==
    \A p \in Procs : pWrote[p] # Null => pReplaced[p] = pContent[p]

(***************************************************************************)
(* getConfigPaths and findPluginEntry (checker.ts 43-66, 136-159).         *)
(* A config path is <<directory, extension>>: the project's .opencode      *)
(* directory, or the opencode directory under a user configuration         *)
(* directory.  A file is what existsSync, readFileSync and                 *)
(* JSON.parse(stripJsonComments(content)) make of it: absent, malformed    *)
(* (the parse throws), or a config whose plugin field is a list of strings *)
(* or missing (hasPlugin FALSE).                                           *)
(***************************************************************************)
ProjectDir == "project"
HomeConfigDir == "home/.config"      \* path.join(os.homedir(), ".config")
AppDataDir == "appdata"

ConfigDirs == {ProjectDir, HomeConfigDir, AppDataDir}
Extensions == {"json", "jsonc"}
ConfigPaths == ConfigDirs \X Extensions

Includes(seq, x) == \E k \in 1..Len(seq) : seq[k] = x

\* The bug of probing the .jsonc file of a directory before its .json file.
ConfigPathsJsoncFirst(userDir) ==
    << <<ProjectDir, "jsonc">>, <<ProjectDir, "json">>,
       <<userDir, "jsonc">>, <<userDir, "json">> >>

\* checker.ts 44-49: the four paths every platform has
BaseConfigPaths(userDir) ==
    << <<ProjectDir, "json">>, <<ProjectDir, "jsonc">>,
       <<userDir, "json">>, <<userDir, "jsonc">> >>

getConfigPaths(plat, userDir, appdata) ==
    LET paths == BaseConfigPaths(userDir)
        alternateDir == IF userDir = HomeConfigDir THEN appdata ELSE HomeConfigDir
        alternateConfig == <<alternateDir, "json">>
        alternateConfigJsonc == <<alternateDir, "jsonc">>
        withJson == IF Includes(paths, alternateConfig) THEN paths
                    ELSE Append(paths, alternateConfig)
        withBoth == IF Includes(withJson, alternateConfigJsonc) THEN withJson
                    ELSE Append(withJson, alternateConfigJsonc)
    IN  IF plat = "win32" /\ appdata # "" THEN withBoth ELSE paths

LatestTag == Latest

\* The bug of taking every version, "latest" too, as a pin.
IsPinnedAlways(pinnedVersion) == TRUE

\* checker.ts 150: pinnedVersion !== "latest"
IsPinned(pinnedVersion) == pinnedVersion # LatestTag

\* checker.ts 144-153: the loop over the plugin entries, from entry i on;
\* <<>> when no entry matches
RECURSIVE ScanPlugins(_, _, _)
ScanPlugins(plugins, i, configPath) ==
    IF i > Len(plugins) THEN <<>>
    ELSE LET entry == plugins[i]
             pinnedVersion == JsSlice(entry, Len(PACKAGE_NAME) + 1, Len(entry))
             isPinned == IsPinned(pinnedVersion)
         IN  IF entry = PACKAGE_NAME
             THEN <<[entry |-> entry, isPinned |-> FALSE, pinnedVersion |-> Null,
                     configPath |-> configPath]>>
             ELSE IF StartsWith(entry, PACKAGE_NAME \o <<"@">>)
             THEN <<[entry |-> entry, isPinned |-> isPinned,
                     pinnedVersion |-> IF isPinned THEN pinnedVersion ELSE Null,
                     configPath |-> configPath]>>
             ELSE ScanPlugins(plugins, i + 1, configPath)

\* checker.ts 137-158: the loop over the config paths, from path k on
RECURSIVE ProbePaths(_, _, _)
ProbePaths(files, paths, k) ==
    IF k > Len(paths) THEN <<>>
    ELSE LET f == files[paths[k]]
             plugins == IF f.hasPlugin THEN f.plugin ELSE <<>>
             hit == ScanPlugins(plugins, 1, paths[k])
         IN  IF f.kind = "absent" THEN ProbePaths(files, paths, k + 1)
             ELSE IF f.kind = "malformed" THEN ProbePaths(files, paths, k + 1)
             ELSE IF hit # <<>> THEN hit
             ELSE ProbePaths(files, paths, k + 1)

findPluginEntry(files, plat, userDir, appdata) ==
    ProbePaths(files, getConfigPaths(plat, userDir, appdata), 1)

(***************************************************************************)
(* The files findPluginEntry meets.                                        *)
(***************************************************************************)
MaxFiles == 2

OtherPlugin == <<"o", "t", "h", "e", "r">>

PluginLists ==
    { <<OtherPlugin>>,
      <<PACKAGE_NAME>>,
      <<NewEntry(LatestTag)>>,
      <<OtherPlugin, NewEntry(V10)>>,
      <<NewEntry(V11), PACKAGE_NAME>>,
      <<PACKAGE_NAME \o <<"x">>, NewEntry(<<>>)>> }

AbsentFile == [kind |-> "absent", hasPlugin |-> FALSE, plugin |-> <<>>]

WrittenFiles ==
    { [kind |-> "malformed", hasPlugin |-> FALSE, plugin |-> <<>>],
      [kind |-> "config", hasPlugin |-> FALSE, plugin |-> <<>>] }
    \cup { [kind |-> "config", hasPlugin |-> TRUE, plugin |-> l] : l \in PluginLists }

nonFindVars == <<stripVars, chanVars, patchVars, fetchVars, lookVars, cfgVars>>

NumFiles == Cardinality({path \in ConfigPaths : fs[path] # AbsentFile})

WriteFile(path, f) ==
    /\ fPc = "files"
    /\ fs[path] = AbsentFile
    /\ NumFiles < MaxFiles
    /\ fs' = [fs EXCEPT ![path] = f]
    /\ UNCHANGED <<platform, userConfigDir, appdataDir, fPc, found>>
    /\ UNCHANGED nonFindVars

FindPluginEntry ==
    /\ fPc = "files"
    /\ found' = findPluginEntry(fs, platform, userConfigDir, appdataDir)
    /\ fPc' = "done"
    /\ UNCHANGED <<platform, userConfigDir, appdataDir, fs>>
    /\ UNCHANGED nonFindVars

InitFind ==
    /\ platform \in {"linux", "win32"}
    /\ userConfigDir \in {HomeConfigDir, AppDataDir}
    /\ appdataDir \in (IF platform = "win32" THEN {AppDataDir, HomeConfigDir, ""}
                                             ELSE {AppDataDir})
    /\ fs = [path \in ConfigPaths |-> AbsentFile]
    /\ fPc = "files"
    /\ found = <<>>
    /\ StripIdle
    /\ ChanIdle
    /\ PatchIdle
    /\ FetchIdle
    /\ LookIdle
    /\ CfgIdle

NextFind ==
    \/ \E path \in ConfigPaths, f \in WrittenFiles : WriteFile(path, f)
    \/ FindPluginEntry

SpecFind == InitFind /\ [][NextFind]_vars

(***************************************************************************)
(* The precedence order as specified: project .json, project .jsonc, user  *)
(* .json, user .jsonc, then the platform's alternate directory.            *)
(***************************************************************************)
SpecifiedOrder ==
    << <<ProjectDir, "json">>, <<ProjectDir, "jsonc">>,
       <<userConfigDir, "json">>, <<userConfigDir, "jsonc">> >>
    \o (IF platform = "win32" /\ appdataDir # ""
        THEN LET alt == IF userConfigDir = HomeConfigDir THEN appdataDir ELSE HomeConfigDir
             IN  << <<alt, "json">>, <<alt, "jsonc">> >>
        ELSE <<>>)

\* the bare package name, or name@version
IsPluginRef(e) ==
    \/ e = PACKAGE_NAME
    \/ /\ Len(e) > Len(PACKAGE_NAME)
       /\ Span(e, 1, Len(PACKAGE_NAME)) = PACKAGE_NAME
       /\ e[Len(PACKAGE_NAME) + 1] = "@"

\* the file at path exists, parses, and its plugin array holds a reference
Qualifies(path) ==
    /\ fs[path].kind = "config"
    /\ fs[path].hasPlugin
    /\ \E i \in 1..Len(fs[path].plugin) : IsPluginRef(fs[path].plugin[i])

FirstRef(path) ==
    LET l == fs[path].plugin
        i == CHOOSE k \in 1..Len(l) :
                 IsPluginRef(l[k]) /\ \A j \in 1..(k - 1) : ~IsPluginRef(l[j])
    IN  l[i]

C9_PinState ==
    (fPc = "done" /\ found # <<>>) =>
        LET r == found[1]
        IN  /\ IsPluginRef(r.entry)
            /\ (r.entry = PACKAGE_NAME \/ r.entry = PACKAGE_NAME \o <<"@">> \o Latest)
                   => (r.isPinned = FALSE /\ r.pinnedVersion = Null)
            /\ (r.entry # PACKAGE_NAME /\ r.entry # PACKAGE_NAME \o <<"@">> \o Latest)
                   => (/\ r.isPinned = TRUE
                       /\ r.pinnedVersion # Null
                       /\ r.entry = PACKAGE_NAME \o <<"@">> \o r.pinnedVersion)
            /\ (r.isPinned <=> r.pinnedVersion # Null)

\* name@latest was returned
C9_Witness ==
    /\ fPc = "done" /\ found # <<>>
    /\ found[1].entry = PACKAGE_NAME \o <<"@">> \o Latest
    /\ found[1].isPinned = FALSE

(***************************************************************************)
(* getLatestVersion (checker.ts 235-254).  The registry's answer is a      *)
(* status (response.ok) and a body: a dist-tags object (tag -> version,    *)
(* Null where the tag is missing), the JSON value null, or text that       *)
(* response.json() rejects.                                                *)
(***************************************************************************)
BetaTag == <<"b", "e", "t", "a">>
NextTag == <<"n", "e", "x", "t">>

RegistryTags == {Latest, BetaTag}
Channels == {Latest, BetaTag, NextTag}

DistTags == [RegistryTags -> {Null, V10, V11}]

Bodies ==
    { [kind |-> "object", tags |-> d] : d \in DistTags }
    \cup { [kind |-> "null", tags |-> <<>>], [kind |-> "invalid", tags |-> <<>>] }

Responses == { [ok |-> o, kind |-> b.kind, tags |-> b.tags] : o \in BOOLEAN, b \in Bodies }

\* data[key]: undefined (Null) for a key the object does not have
Property(data, key) == IF key \in DOMAIN data THEN data[key] ELSE Null

\* The bug of preferring the latest tag to the requested channel.
LatestFirst(data, ch) ==
    IF Property(data, Latest) # Null THEN Property(data, Latest)
    ELSE IF Property(data, ch) # Null THEN Property(data, ch)
    ELSE Null

\* checker.ts 248: data[channel] ?? data.latest ?? null
SelectVersion(data, ch) ==
    IF Property(data, ch) # Null THEN Property(data, ch)
    ELSE IF Property(data, Latest) # Null THEN Property(data, Latest)
    ELSE Null

\* checker.ts 247-248 on a response with ok status: response.json() rejects
\* on an invalid body, and data[channel] throws on the value null
ReadBody(resp, ch) ==
    IF resp.kind = "invalid" THEN [threw |-> TRUE, ended |-> "bad-body", value |-> Null]
    ELSE IF resp.kind = "null" THEN [threw |-> TRUE, ended |-> "bad-body", value |-> Null]
    ELSE [threw |-> FALSE, ended |-> "value", value |-> SelectVersion(resp.tags, ch)]

\* The bug of a missing catch: what is thrown leaves the function.
NoCatch(outcome) == outcome

\* checker.ts 249-251: catch { return null }
Catch(outcome) ==
    IF outcome.threw THEN [threw |-> FALSE, ended |-> outcome.ended, value |-> Null]
    ELSE outcome

nonFetchVars == <<stripVars, chanVars, patchVars, findVars, lookVars, cfgVars>>

\* the function returns: its promise settles, and finally clears the timer
Settle(outcome) ==
    /\ gPc' = "returned"
    /\ gThrew' = outcome.threw
    /\ gEnded' = outcome.ended
    /\ gResult' = outcome.value
    /\ gTimer' = IF gTimer = "armed" THEN "cleared" ELSE gTimer

\* checker.ts 235-243: the call arms the timer and issues the fetch;
\* ch = Null is a call without the parameter
GetLatestVersion(ch) ==
    /\ gPc = "idle"
    /\ gChannel' = IF ch = Null THEN Latest ELSE ch
    /\ gTimer' = "armed"
    /\ gPc' = "fetching"
    /\ UNCHANGED <<gResponse, gAborted, gEnded, gThrew, gResult>>
    /\ UNCHANGED nonFetchVars

\* fetch resolves; checker.ts 245 returns null on a status that is not ok
FetchResponds(resp) ==
    /\ gPc = "fetching"
    /\ ~gAborted
    /\ gResponse' = resp
    /\ IF resp.ok
       THEN /\ gPc' = "body"
            /\ UNCHANGED <<gTimer, gEnded, gThrew, gResult>>
       ELSE Settle([threw |-> FALSE, ended |-> "not-ok", value |-> Null])
    /\ UNCHANGED <<gChannel, gAborted>>
    /\ UNCHANGED nonFetchVars

\* fetch rejects with a network error
FetchFails ==
    /\ gPc = "fetching"
    /\ ~gAborted
    /\ Settle(Catch([threw |-> TRUE, ended |-> "network-error", value |-> Null]))
    /\ UNCHANGED <<gChannel, gResponse, gAborted>>
    /\ UNCHANGED nonFetchVars

\* checker.ts 237: the timer fires and aborts the controller
TimeoutFires ==
    /\ gTimer = "armed"
    /\ gPc \in {"fetching", "body"}
    /\ gAborted' = TRUE
    /\ gTimer' = "fired"
    /\ UNCHANGED <<gPc, gChannel, gResponse, gEnded, gThrew, gResult>>
    /\ UNCHANGED nonFetchVars

\* the pending fetch or body read rejects with the abort error
AbortRejects ==
    /\ gAborted
    /\ gPc \in {"fetching", "body"}
    /\ Settle(Catch([threw |-> TRUE, ended |-> "abort", value |-> Null]))
    /\ UNCHANGED <<gChannel, gResponse, gAborted>>
    /\ UNCHANGED nonFetchVars

\* checker.ts 247-248: the body is read and the version selected
BodyRead ==
    /\ gPc = "body"
    /\ ~gAborted
    /\ Settle(Catch(ReadBody(gResponse, gChannel)))
    /\ UNCHANGED <<gChannel, gResponse, gAborted>>
    /\ UNCHANGED nonFetchVars

InitFetch ==
    /\ gPc = "idle" /\ gChannel = Null /\ gResponse = NoResponse /\ gTimer = "none"
    /\ gAborted = FALSE /\ gEnded = "none" /\ gThrew = FALSE /\ gResult = Null
    /\ StripIdle
    /\ ChanIdle
    /\ PatchIdle
    /\ FindIdle
    /\ LookIdle
    /\ CfgIdle

NextFetch ==
    \/ \E ch \in Channels \cup {Null} : GetLatestVersion(ch)
    \/ \E resp \in Responses : FetchResponds(resp)
    \/ FetchFails
    \/ TimeoutFires
    \/ AbortRejects
    \/ BodyRead

SpecFetch == InitFetch /\ [][NextFetch]_vars

Manifests ==
    { [kind |-> "object", version |-> v] : v \in {Null, V10, V11} }
    \cup { [kind |-> "null", version |-> Null], [kind |-> "invalid", version |-> Null] }

ManifestResponses ==
    { [ok |-> o, kind |-> m.kind, version |-> m.version] : o \in BOOLEAN, m \in Manifests }

\* config-manager.ts 155-156 on a response with ok status: res.json() rejects
\* on an invalid body, and data.version throws on the value null
ReadManifest(resp) ==
    IF resp.kind = "invalid" THEN [threw |-> TRUE, ended |-> "bad-body", value |-> Null]
    ELSE IF resp.kind = "null" THEN [threw |-> TRUE, ended |-> "bad-body", value |-> Null]
    ELSE [threw |-> FALSE, ended |-> "value", value |-> resp.version]

nonLookVars == <<stripVars, chanVars, patchVars, findVars, fetchVars, cfgVars>>

\* the function returns: its promise settles
SettleLookup(outcome) ==
    /\ lPc' = "returned"
    /\ lThrew' = outcome.threw
    /\ lEnded' = outcome.ended
    /\ lResult' = outcome.value

\* config-manager.ts 151-153: the call issues the fetch, with no signal
FetchLatestVersion ==
    /\ lPc = "idle"
    /\ lPc' = "fetching"
    /\ UNCHANGED <<lResponse, lEnded, lThrew, lResult>>
    /\ UNCHANGED nonLookVars

\* fetch resolves; config-manager.ts 154 returns null on a status that is not ok
ManifestResponds(resp) ==
    /\ lPc = "fetching"
    /\ lResponse' = resp
    /\ IF resp.ok
       THEN /\ lPc' = "body"
            /\ UNCHANGED <<lEnded, lThrew, lResult>>
       ELSE SettleLookup([threw |-> FALSE, ended |-> "not-ok", value |-> Null])
    /\ UNCHANGED nonLookVars

\* fetch rejects with a network error; config-manager.ts 157-159 catches it
ManifestFails ==
    /\ lPc = "fetching"
    /\ SettleLookup(Catch([threw |-> TRUE, ended |-> "network-error", value |-> Null]))
    /\ UNCHANGED lResponse
    /\ UNCHANGED nonLookVars

\* config-manager.ts 155-156: the body is read and its version returned
ManifestRead ==
    /\ lPc = "body"
    /\ SettleLookup(Catch(ReadManifest(lResponse)))
    /\ UNCHANGED lResponse
    /\ UNCHANGED nonLookVars

(***************************************************************************)
(* The two registry lookups side by side.  The runtime fires an armed      *)
(* timer and rejects an aborted request; the registry owes no answer.      *)
(***************************************************************************)
InitLookups ==
    /\ gPc = "idle" /\ gChannel = Null /\ gResponse = NoResponse /\ gTimer = "none"
    /\ gAborted = FALSE /\ gEnded = "none" /\ gThrew = FALSE /\ gResult = Null
    /\ lPc = "idle" /\ lResponse = NoManifest /\ lEnded = "none"
    /\ lThrew = FALSE /\ lResult = Null
    /\ StripIdle
    /\ ChanIdle
    /\ PatchIdle
    /\ FindIdle
    /\ CfgIdle

NextLookups ==
    \/ \E ch \in Channels \cup {Null} : GetLatestVersion(ch)
    \/ \E resp \in Responses : FetchResponds(resp)
    \/ FetchFails
    \/ TimeoutFires
    \/ AbortRejects
    \/ BodyRead
    \/ FetchLatestVersion
    \/ \E resp \in ManifestResponses : ManifestResponds(resp)
    \/ ManifestFails
    \/ ManifestRead

SpecLookups ==
    /\ InitLookups
    /\ [][NextLookups]_vars
    /\ WF_vars(TimeoutFires)
    /\ WF_vars(AbortRejects)

\* C11: every registry lookup is bounded by a timeout: a lookup in flight, of
\* getLatestVersion or of fetchLatestVersion, eventually returns even when the
\* registry never responds; an aborted lookup returns null; and no return
\* leaves the timeout timer armed.
C11_LookupsBounded ==
    /\ [](gPc = "returned" => gTimer # "armed")
    /\ [](gEnded = "abort" => (gResult = Null /\ ~gThrew))
    /\ (gPc \in {"fetching", "body"}) ~> (gPc = "returned")
    /\ (lPc \in {"fetching", "body"}) ~> (lPc = "returned")

(***************************************************************************)
(* JSON values, JSON.stringify(value, null, 2) and JSON.parse              *)
(* (config-manager.ts 71, 108, 403).  A value is a record of one shape:    *)
(*   t    "str" | "num" | "lit" | "arr" | "obj" | "mem" | "undef"           *)
(*   s    the characters of a string, the digits of a number, the word of  *)
(*        a literal (true, false, null), the key of an object member       *)
(*   kids the elements of an array, the members of an object in insertion  *)
(*        order, the one value of a member                                 *)
(* Numbers are integers without fraction or exponent and strings hold no   *)
(* \u escape: the texts of the model contain neither.                      *)
(***************************************************************************)
JStr(s) == [t |-> "str", s |-> s, kids |-> <<>>]
JNum(s) == [t |-> "num", s |-> s, kids |-> <<>>]
JLit(s) == [t |-> "lit", s |-> s, kids |-> <<>>]
JArr(kids) == [t |-> "arr", s |-> <<>>, kids |-> kids]
JObj(members) == [t |-> "obj", s |-> <<>>, kids |-> members]
JMem(k, v) == [t |-> "mem", s |-> k, kids |-> <<v>>]

Undefined == [t |-> "undef", s |-> <<>>, kids |-> <<>>]
JNull == JLit(<<"n", "u", "l", "l">>)
JTrue == JLit(<<"t", "r", "u", "e">>)
JFalse == JLit(<<"f", "a", "l", "s", "e">>)

TAB == "\t"

\* the quoting JSON.stringify applies to the characters of a string
EscapeChar(c) ==
    CASE c = Q -> <<BS, Q>>
      [] c = BS -> <<BS, BS>>
      [] c = NL -> <<BS, "n">>
      [] c = CR -> <<BS, "r">>
      [] c = TAB -> <<BS, "t">>
      [] OTHER -> <<c>>

\* the characters lo..hi of s, escaped: the first half and then the second
RECURSIVE EscapeSpan(_, _, _)
EscapeSpan(s, lo, hi) ==
    IF lo > hi THEN <<>>
    ELSE IF lo = hi THEN EscapeChar(s[lo])
    ELSE LET mid == (lo + hi) \div 2
         IN  EscapeSpan(s, lo, mid) \o EscapeSpan(s, mid + 1, hi)

\* a string without such characters is written as it is
EscapeString(s) ==
    IF \A i \in 1..Len(s) : s[i] \notin {Q, BS, NL, CR, TAB} THEN s
    ELSE EscapeSpan(s, 1, Len(s))

QuoteString(s) == <<Q>> \o EscapeString(s) \o <<Q>>

Indent(n) == [k \in 1..n |-> SP]

\* JSON.stringify(v, null, 2) of a value nested n spaces deep; the lines of
\* the elements or members lo..hi of kids, the first half and then the second
RECURSIVE Stringify(_, _)
RECURSIVE StringifyKids(_, _, _, _)
StringifyKids(kids, lo, hi, n) ==
    IF lo < hi
    THEN StringifyKids(kids, lo, (lo + hi) \div 2, n)
         \o StringifyKids(kids, ((lo + hi) \div 2) + 1, hi, n)
    ELSE Indent(n)
         \o (IF kids[lo].t = "mem"
             THEN QuoteString(kids[lo].s) \o <<":", SP>> \o Stringify(kids[lo].kids[1], n)
             ELSE Stringify(kids[lo], n))
         \o (IF lo < Len(kids) THEN <<",", NL>> ELSE <<NL>>)

Stringify(v, n) ==
    CASE v.t = "str" -> QuoteString(v.s)
      [] v.t \in {"num", "lit"} -> v.s
      [] v.t = "arr" /\ v.kids = <<>> -> <<"[", "]">>
      [] v.t = "arr" /\ v.kids # <<>> ->
            <<"[", NL>> \o StringifyKids(v.kids, 1, Len(v.kids), n + 2) \o Indent(n) \o <<"]">>
      [] v.t = "obj" /\ v.kids = <<>> -> <<"{", "}">>
      [] v.t = "obj" /\ v.kids # <<>> ->
            <<"{", NL>> \o StringifyKids(v.kids, 1, Len(v.kids), n + 2) \o Indent(n) \o <<"}">>

\* config-manager.ts 108, 403: JSON.stringify(config, null, 2) + "\n"
Serialize(v) == Stringify(v, 0) \o <<NL>>

\* the white space JSON.parse skips
JsonWhiteSpace == {SP, NL, CR, TAB}

\* the first position from p on that holds no white space
JsonSkip(t, p) ==
    IF \E q \in p..Len(t) : t[q] \notin JsonWhiteSpace
    THEN CHOOSE q \in p..Len(t) :
             t[q] \notin JsonWhiteSpace /\ \A f \in p..(q - 1) : t[f] \in JsonWhiteSpace
    ELSE IF p > Len(t) THEN p
    ELSE Len(t) + 1

ParseFailure == [ok |-> FALSE, v |-> Undefined, p |-> 0]
Parsed(v, p) == [ok |-> TRUE, v |-> v, p |-> p]

\* obj[k] = v on the members of an object: an existing key keeps its place
RECURSIVE PutMember(_, _, _)
PutMember(members, k, v) ==
    IF members = <<>> THEN <<JMem(k, v)>>
    ELSE IF Head(members).s = k THEN <<JMem(k, v)>> \o Tail(members)
    ELSE <<Head(members)>> \o PutMember(Tail(members), k, v)

\* the backslashes that end just before e, none of them before p
BackslashRun(t, p, e) ==
    Cardinality({ j \in p..(e - 1) : \A m \in j..(e - 1) : t[m] = BS })

\* a quote closes the literal begun at p when no backslash escapes it
ClosesLiteral(t, p, e) == t[e] = Q /\ BackslashRun(t, p, e) % 2 = 0

\* the closing quote of the string literal whose characters begin at p, 0
\* when it is never closed
LiteralEnd(t, p) ==
    IF \E e \in p..Len(t) : ClosesLiteral(t, p, e)
    THEN CHOOSE e \in p..Len(t) :
             ClosesLiteral(t, p, e) /\ \A f \in p..(e - 1) : ~ClosesLiteral(t, p, f)
    ELSE 0

\* One character of a string literal at s.p: s.acc are the characters read,
\* s.end is "open", "closed" (s.p is past the closing quote) or "bad"
CharStep(t, s) ==
    LET e == At(t, s.p + 1)
    IN  IF s.end # "open" THEN s
        ELSE IF s.p > Len(t) \/ t[s.p] \in {NL, CR, TAB} THEN [s EXCEPT !.end = "bad"]
        ELSE IF t[s.p] = Q THEN [s EXCEPT !.end = "closed", !.p = s.p + 1]
        ELSE IF t[s.p] # BS THEN [s EXCEPT !.acc = Append(s.acc, t[s.p]), !.p = s.p + 1]
        ELSE IF e \in {Q, BS, "/"} THEN [s EXCEPT !.acc = Append(s.acc, e), !.p = s.p + 2]
        ELSE IF e = "n" THEN [s EXCEPT !.acc = Append(s.acc, NL), !.p = s.p + 2]
        ELSE IF e = "r" THEN [s EXCEPT !.acc = Append(s.acc, CR), !.p = s.p + 2]
        ELSE IF e = "t" THEN [s EXCEPT !.acc = Append(s.acc, TAB), !.p = s.p + 2]
        ELSE [s EXCEPT !.end = "bad"]

\* Up to n characters, the first half and then, while the literal is open,
\* the second.
RECURSIVE CharSteps(_, _, _)
CharSteps(t, s, n) ==
    IF n <= 1 THEN CharStep(t, s)
    ELSE LET half == CharSteps(t, s, n \div 2)
         IN  IF half.end # "open" THEN half
             ELSE CharSteps(t, half, n - (n \div 2))

\* what a literal read character by character comes to
DecodedLiteral(s) ==
    IF s.end = "closed" THEN Parsed(JStr(s.acc), s.p) ELSE ParseFailure

\* the string literal whose characters are p..e-1: a literal without
\* backslashes or control characters stands for its own characters, any
\* other is read character by character
LiteralTo(t, p, e) ==
    IF e = 0 THEN ParseFailure
    ELSE IF \A i \in p..(e - 1) : t[i] \notin {BS, NL, CR, TAB}
    THEN Parsed(JStr(SubSeq(t, p, e - 1)), e + 1)
    ELSE DecodedLiteral(CharSteps(t, [p |-> p, acc |-> <<>>, end |-> "open"], e - p + 1))

\* the string literal whose characters begin at p
ParseChars(t, p) == LiteralTo(t, p, LiteralEnd(t, p))

\* the first position from p on that holds no digit
DigitsEnd(t, p) ==
    IF \E q \in p..Len(t) : t[q] \notin Digits
    THEN CHOOSE q \in p..Len(t) :
             t[q] \notin Digits /\ \A f \in p..(q - 1) : t[f] \in Digits
    ELSE IF p > Len(t) THEN p
    ELSE Len(t) + 1

\* the number whose digits are p..e-1
NumberTo(t, p, e) ==
    IF e = p \/ (t[p] = "0" /\ e > p + 1) \/ At(t, e) \in {".", "e", "E"}
    THEN ParseFailure
    ELSE Parsed(JNum(JsSlice(t, p - 1, e - 1)), e)

ParseNumber(t, p) == NumberTo(t, p, DigitsEnd(t, p))

ParseWord(t, p, w) ==
    IF JsSlice(t, p - 1, p - 1 + Len(w)) = w THEN Parsed(JLit(w), p + Len(w))
    ELSE ParseFailure

RECURSIVE ParseValue(_, _)
RECURSIVE ParseElements(_, _, _)
RECURSIVE ParseMembers(_, _, _)

\* after the element r of an array: a comma and the next element, or the end
AfterElement(t, acc, r) ==
    IF ~r.ok THEN ParseFailure
    ELSE LET q == JsonSkip(t, r.p)
         IN  CASE At(t, q) = "," -> ParseElements(t, q + 1, Append(acc, r.v))
               [] At(t, q) = "]" -> Parsed(JArr(Append(acc, r.v)), q + 1)
               [] OTHER -> ParseFailure

\* the elements of an array from p on, the first already known to be there
ParseElements(t, p, acc) == AfterElement(t, acc, ParseValue(t, p))

\* after the value r of the member key: a comma and the next member, or the end
AfterMember(t, acc, key, r) ==
    IF ~r.ok THEN ParseFailure
    ELSE LET q == JsonSkip(t, r.p)
         IN  CASE At(t, q) = "," -> ParseMembers(t, q + 1, PutMember(acc, key, r.v))
               [] At(t, q) = "}" -> Parsed(JObj(PutMember(acc, key, r.v)), q + 1)
               [] OTHER -> ParseFailure

\* after the key k of a member: the colon and the member's value
AfterKey(t, acc, k) ==
    IF ~k.ok \/ At(t, JsonSkip(t, k.p)) # ":" THEN ParseFailure
    ELSE AfterMember(t, acc, k.v.s, ParseValue(t, JsonSkip(t, k.p) + 1))

\* the members of an object from p on, the first already known to be there
ParseMembers(t, p, acc) ==
    IF At(t, JsonSkip(t, p)) # Q THEN ParseFailure
    ELSE AfterKey(t, acc, ParseChars(t, JsonSkip(t, p) + 1))

ParseValue(t, p0) ==
    LET p == JsonSkip(t, p0)
        c == At(t, p)
        q == JsonSkip(t, p + 1)
    IN  CASE c = "{" -> IF At(t, q) = "}" THEN Parsed(JObj(<<>>), q + 1)
                        ELSE ParseMembers(t, p + 1, <<>>)
          [] c = "[" -> IF At(t, q) = "]" THEN Parsed(JArr(<<>>), q + 1)
                        ELSE ParseElements(t, p + 1, <<>>)
          [] c = Q -> ParseChars(t, p + 1)
          [] c \in Digits -> ParseNumber(t, p)
          [] c = "t" -> ParseWord(t, p, <<"t", "r", "u", "e">>)
          [] c = "f" -> ParseWord(t, p, <<"f", "a", "l", "s", "e">>)
          [] c = "n" -> ParseWord(t, p, <<"n", "u", "l", "l">>)
          [] OTHER -> ParseFailure

\* the value r read from the start of t, when nothing but white space follows
WholeText(t, r) ==
    IF r.ok /\ JsonSkip(t, r.p) > Len(t) THEN r ELSE ParseFailure

\* JSON.parse(t): a SyntaxError is ok = FALSE
JsonParse(t) ==
    IF t = <<>> THEN ParseFailure ELSE WholeText(t, ParseValue(t, 1))

(***************************************************************************)
(* The config manager's files (config-manager.ts 8-109).  The config       *)
(* directory holds four files: opencode.json ("json"), opencode.jsonc      *)
(* ("jsonc"), oh-my-opencode-slim.json ("lite") and the .jsonc that        *)
(* parseConfig falls back to for it ("litec").                             *)
(***************************************************************************)
FileNames == {"json", "jsonc", "lite", "litec"}

\* a directory where a file should be: it exists, reading and writing it throw
Directory == <<"EISDIR">>

\* JavaScript's truthiness of a value
Truthy(v) ==
    IF v.t = "str" THEN v.s # <<>>
    ELSE IF v.t = "num" THEN v.s # <<"0">>
    ELSE IF v.t = "lit" THEN v.s = <<"t", "r", "u", "e">>
    ELSE v.t \in {"arr", "obj"}

Nullish(v) == v \in {Undefined, JNull}

\* v ?? d
OrElse(v, d) == IF Nullish(v) THEN d ELSE v

\* v[k] of a value that is not nullish: undefined unless v is an object
\* with that key
PropGet(v, k) ==
    IF v.t = "obj" /\ \E i \in 1..Len(v.kids) : v.kids[i].s = k
    THEN v.kids[CHOOSE i \in 1..Len(v.kids) : v.kids[i].s = k].kids[1]
    ELSE Undefined

Thrown == [threw |-> TRUE, v |-> Undefined]
Done(v) == [threw |-> FALSE, v |-> v]

\* v[k] = x in strict mode: a TypeError on a primitive; on an array the
\* property is set but is no part of what JSON.stringify writes
Assign(v, k, x) ==
    IF v.t = "obj" THEN Done(JObj(PutMember(v.kids, k, x)))
    ELSE IF v.t = "arr" THEN Done(v)
    ELSE Thrown

\* v.some((p) => p.startsWith(prefix)): "true", "false", or "throws" when v
\* has no method some or an element reached has no method startsWith
RECURSIVE SomeKidStartsWith(_, _, _)
SomeKidStartsWith(kids, i, prefix) ==
    IF i > Len(kids) THEN "false"
    ELSE IF kids[i].t # "str" THEN "throws"
    ELSE IF StartsWith(kids[i].s, prefix) THEN "true"
    ELSE SomeKidStartsWith(kids, i + 1, prefix)

SomeStartsWith(v, prefix) ==
    IF v.t # "arr" THEN "throws" ELSE SomeKidStartsWith(v.kids, 1, prefix)

\* config-manager.ts 70: content.trim().length === 0
TrimIsEmpty(text) == \A i \in 1..Len(text) : IsWhiteSpace(text[i])

\* config-manager.ts 64-75; null is JNull
ValueOrNull(r) == IF r.ok THEN r.v ELSE JNull

parseConfigFile(files, f) ==
    IF files[f] = Null THEN JNull
    ELSE IF files[f] = Directory THEN JNull
    ELSE IF Len(files[f]) = 0 THEN JNull
    ELSE IF TrimIsEmpty(files[f]) THEN JNull
    ELSE ValueOrNull(JsonParse(stripJsonComments(files[f])))

\* path.replace(/\.json$/, ".jsonc")
JsoncOf(f) == IF f = "json" THEN "jsonc" ELSE "litec"

\* config-manager.ts 77-86
OrJsonc(files, f, config) ==
    IF Truthy(config) THEN config
    ELSE IF f \in {"json", "lite"} THEN parseConfigFile(files, JsoncOf(f))
    ELSE JNull

parseConfig(files, f) == OrJsonc(files, f, parseConfigFile(files, f))

\* config-manager.ts 88-96
getExistingConfigPath(files) ==
    IF files["json"] # Null THEN "json"
    ELSE IF files["jsonc"] # Null THEN "jsonc"
    ELSE "json"

PluginProp == <<"p", "l", "u", "g", "i", "n">>
AuthPlugin == <<"o", "p", "e", "n", "c", "o", "d", "e", "-", "a", "n", "t", "i", "g", "r", "a", "v", "i", "t", "y", "-", "a", "u", "t", "h">>

\* config-manager.ts 180-182: the callback of plugins.filter
IsOwnEntry(p) == p.s = PACKAGE_NAME \/ StartsWith(p.s, PACKAGE_NAME \o <<"@">>)

KeepsForeign(p) == ~IsOwnEntry(p)

\* config-manager.ts 176-186: the config addPluginToOpenCodeConfig writes
AddPluginValue(parsed) ==
    LET config == OrElse(parsed, JObj(<<>>))
        plugins == OrElse(PropGet(config, PluginProp), JArr(<<>>))
    IN  IF plugins.t # "arr" \/ \E i \in 1..Len(plugins.kids) : plugins.kids[i].t # "str"
        THEN Thrown
        ELSE Assign(config, PluginProp,
                    JArr(Append(SelectSeq(plugins.kids, KeepsForeign), JStr(PACKAGE_NAME))))

\* config-manager.ts 204-218: the config addAuthPlugins writes; latestVersion
\* is what fetchLatestVersion resolved with
AddAuthValue(parsed, c, latestVersion) ==
    LET config == OrElse(parsed, JObj(<<>>))
        plugins == OrElse(PropGet(config, PluginProp), JArr(<<>>))
        pluginEntry == AuthPlugin \o <<"@">>
                       \o (IF latestVersion # Null /\ latestVersion # <<>>
                           THEN latestVersion
                           ELSE Latest)
        some == SomeStartsWith(plugins, AuthPlugin)
    IN  IF ~c.hasAntigravity THEN Assign(config, PluginProp, plugins)
        ELSE IF some = "throws" THEN Thrown
        ELSE IF some = "true" THEN Assign(config, PluginProp, plugins)
        ELSE Assign(config, PluginProp, JArr(Append(plugins.kids, JStr(pluginEntry))))

\* config-manager.ts 233-264: GOOGLE_PROVIDER_CONFIG.google.  Of each model
\* the name, thinking and attachment members are kept; its limit and
\* modalities members, which no operation reads, are left out.
GoogleProvider == JObj(<<
      JMem(<<"n", "a", "m", "e">>, JStr(<<"G", "o", "o", "g", "l", "e">>)),
      JMem(<<"m", "o", "d", "e", "l", "s">>, JObj(<<
          JMem(<<"g", "e", "m", "i", "n", "i", "-", "3", "-", "p", "r", "o", "-", "h", "i", "g", "h">>, JObj(<<
              JMem(<<"n", "a", "m", "e">>, JStr(<<"G", "e", "m", "i", "n", "i", " ", "3", " ", "P", "r", "o", " ", "H", "i", "g", "h">>)),
              JMem(<<"t", "h", "i", "n", "k", "i", "n", "g">>, JTrue),
              JMem(<<"a", "t", "t", "a", "c", "h", "m", "e", "n", "t">>, JTrue)>>)),
          JMem(<<"g", "e", "m", "i", "n", "i", "-", "3", "-", "f", "l", "a", "s", "h">>, JObj(<<
              JMem(<<"n", "a", "m", "e">>, JStr(<<"G", "e", "m", "i", "n", "i", " ", "3", " ", "F", "l", "a", "s", "h">>)),
              JMem(<<"a", "t", "t", "a", "c", "h", "m", "e", "n", "t">>, JTrue)>>)),
          JMem(<<"c", "l", "a", "u", "d", "e", "-", "o", "p", "u", "s", "-", "4", "-", "5", "-", "t", "h", "i", "n", "k", "i", "n", "g">>, JObj(<<
              JMem(<<"n", "a", "m", "e">>, JStr(<<"C", "l", "a", "u", "d", "e", " ", "O", "p", "u", "s", " ", "4", ".", "5", " ", "T", "h", "i", "n", "k", "i", "n", "g">>)),
              JMem(<<"a", "t", "t", "a", "c", "h", "m", "e", "n", "t">>, JTrue)>>)),
          JMem(<<"c", "l", "a", "u", "d", "e", "-", "s", "o", "n", "n", "e", "t", "-", "4", "-", "5", "-", "t", "h", "i", "n", "k", "i", "n", "g">>, JObj(<<
              JMem(<<"n", "a", "m", "e">>, JStr(<<"C", "l", "a", "u", "d", "e", " ", "S", "o", "n", "n", "e", "t", " ", "4", ".", "5", " ", "T", "h", "i", "n", "k", "i", "n", "g">>)),
              JMem(<<"a", "t", "t", "a", "c", "h", "m", "e", "n", "t">>, JTrue)>>))>>))>>)

\* config-manager.ts 271-277: the config addProviderConfig writes
AddProviderValue(parsed, c) ==
    LET config == OrElse(parsed, JObj(<<>>))
        providers == OrElse(PropGet(config, <<"p", "r", "o", "v", "i", "d", "e", "r">>), JObj(<<>>))
        set == Assign(providers, <<"g", "o", "o", "g", "l", "e">>, GoogleProvider)
    IN  IF ~c.hasAntigravity THEN Done(config)
        ELSE IF set.threw THEN Thrown
        ELSE Assign(config, <<"p", "r", "o", "v", "i", "d", "e", "r">>, set.v)

\* config-manager.ts 298-307: the config addServerConfig writes
AddServerValue(parsed, c) ==
    LET config == OrElse(parsed, JObj(<<>>))
        server == OrElse(PropGet(config, <<"s", "e", "r", "v", "e", "r">>), JObj(<<>>))
        set == IF PropGet(server, <<"p", "o", "r", "t">>) = Undefined
               THEN Assign(server, <<"p", "o", "r", "t">>, JNum(<<"4", "0", "9", "6">>))
               ELSE Done(server)
    IN  IF ~c.hasTmux THEN Done(config)
        ELSE IF set.threw THEN Thrown
        ELSE Assign(config, <<"s", "e", "r", "v", "e", "r">>, set.v)

Disabled == JObj(<<
      JMem(<<"d", "i", "s", "a", "b", "l", "e">>, JTrue)>>)

\* config-manager.ts 422-427: the config disableDefaultAgents writes
DisableAgentsValue(parsed) ==
    LET config == OrElse(parsed, JObj(<<>>))
        agent == OrElse(PropGet(config, <<"a", "g", "e", "n", "t">>), JObj(<<>>))
        explore == Assign(agent, <<"e", "x", "p", "l", "o", "r", "e">>, Disabled)
        general == Assign(explore.v, <<"g", "e", "n", "e", "r", "a", "l">>, Disabled)
    IN  IF explore.threw \/ general.threw THEN Thrown
        ELSE Assign(config, <<"a", "g", "e", "n", "t">>, general.v)

\* config-manager.ts 321-352: MODEL_MAPPINGS
OpusThinking == <<"g", "o", "o", "g", "l", "e", "/", "c", "l", "a", "u", "d", "e", "-", "o", "p", "u", "s", "-", "4", "-", "5", "-", "t", "h", "i", "n", "k", "i", "n", "g">>
GeminiFlash == <<"g", "o", "o", "g", "l", "e", "/", "g", "e", "m", "i", "n", "i", "-", "3", "-", "f", "l", "a", "s", "h">>
Codex == <<"o", "p", "e", "n", "a", "i", "/", "g", "p", "t", "-", "5", ".", "2", "-", "c", "o", "d", "e", "x">>
Gpt41Mini == <<"o", "p", "e", "n", "a", "i", "/", "g", "p", "t", "-", "4", ".", "1", "-", "m", "i", "n", "i">>
Glm46 == <<"c", "e", "r", "e", "b", "r", "a", "s", "/", "z", "a", "i", "-", "g", "l", "m", "-", "4", ".", "6">>

AgentNames ==
    << <<"o", "r", "c", "h", "e", "s", "t", "r", "a", "t", "o", "r">>,
       <<"c", "o", "d", "e", "-", "s", "i", "m", "p", "l", "i", "c", "i", "t", "y", "-", "r", "e", "v", "i", "e", "w", "e", "r">>,
       <<"o", "r", "a", "c", "l", "e">>,
       <<"l", "i", "b", "r", "a", "r", "i", "a", "n">>,
       <<"e", "x", "p", "l", "o", "r", "e">>,
       <<"f", "r", "o", "n", "t", "e", "n", "d", "-", "u", "i", "-", "u", "x", "-", "e", "n", "g", "i", "n", "e", "e", "r">>,
       <<"d", "o", "c", "u", "m", "e", "n", "t", "-", "w", "r", "i", "t", "e", "r">>,
       <<"m", "u", "l", "t", "i", "m", "o", "d", "a", "l", "-", "l", "o", "o", "k", "e", "r">> >>

MODEL_MAPPINGS ==
    [ antigravity |-> <<OpusThinking, OpusThinking, OpusThinking, GeminiFlash,
                        GeminiFlash, GeminiFlash, GeminiFlash, GeminiFlash>>,
      openai |-> <<Codex, Codex, Codex, Gpt41Mini, Gpt41Mini, Gpt41Mini, Gpt41Mini,
                   Gpt41Mini>>,
      cerebras |-> <<Glm46, Glm46, Glm46, Glm46, Glm46, Glm46, Glm46, Glm46>> ]

ModelOf(m) == JObj(<<JMem(<<"m", "o", "d", "e", "l">>, JStr(m))>>)

TmuxSettings == JObj(<<
      JMem(<<"e", "n", "a", "b", "l", "e", "d">>, JTrue),
      JMem(<<"l", "a", "y", "o", "u", "t">>, JStr(<<"m", "a", "i", "n", "-", "v", "e", "r", "t", "i", "c", "a", "l">>)),
      JMem(<<"m", "a", "i", "n", "_", "p", "a", "n", "e", "_", "s", "i", "z", "e">>, JNum(<<"6", "0">>))>>)

\* config-manager.ts 354-395
generateLiteConfig(c) ==
    LET baseProvider == IF c.hasAntigravity THEN "antigravity"
                        ELSE IF c.hasOpenAI THEN "openai"
                        ELSE IF c.hasCerebras THEN "cerebras"
                        ELSE "null"
        base == [i \in 1..Len(AgentNames) |->
                    JMem(AgentNames[i], ModelOf(MODEL_MAPPINGS[baseProvider][i]))]
        withOracle == IF c.hasAntigravity /\ c.hasOpenAI
                      THEN PutMember(base, <<"o", "r", "a", "c", "l", "e">>, ModelOf(Codex))
                      ELSE base
        agents == IF c.hasCerebras /\ (c.hasAntigravity \/ c.hasOpenAI)
                  THEN PutMember(withOracle, <<"e", "x", "p", "l", "o", "r", "e">>, ModelOf(Glm46))
                  ELSE withOracle
        agentsMember == JMem(<<"a", "g", "e", "n", "t", "s">>,
                             IF baseProvider = "null" THEN JObj(<<>>) ELSE JObj(agents))
    IN  JObj(IF c.hasTmux THEN <<agentsMember, JMem(<<"t", "m", "u", "x">>, TmuxSettings)>>
             ELSE <<agentsMember>>)

\* Object.values(v) of a truthy value
ObjectValues(v) ==
    IF v.t = "obj" THEN [i \in 1..Len(v.kids) |-> v.kids[i].kids[1]]
    ELSE IF v.t = "arr" THEN v.kids
    ELSE IF v.t = "str" THEN [i \in 1..Len(v.s) |-> JStr(<<v.s[i]>>)]
    ELSE <<>>

\* a?.model
ModelProp(a) == IF Nullish(a) THEN Undefined ELSE PropGet(a, <<"m", "o", "d", "e", "l">>)

\* config-manager.ts 463-465: Object.values(agents).map(...).filter(Boolean)
ModelsOf(agents) ==
    LET values == ObjectValues(agents)
    IN  SelectSeq([i \in 1..Len(values) |-> ModelProp(values[i])], Truthy)

Detected(inst, anti, openai, cerebras, tmux) ==
    [threw |-> FALSE, success |-> FALSE, isInstalled |-> inst, hasAntigravity |-> anti,
     hasOpenAI |-> openai, hasCerebras |-> cerebras, hasTmux |-> tmux]

DetectThrew ==
    [threw |-> TRUE, success |-> FALSE, isInstalled |-> FALSE, hasAntigravity |-> FALSE,
     hasOpenAI |-> FALSE, hasCerebras |-> FALSE, hasTmux |-> FALSE]

\* config-manager.ts 452-475: what the body makes of the two parsed files
DetectFrom(config, liteConfig) ==
    LET plugins == OrElse(PropGet(config, PluginProp), JArr(<<>>))
        inst == SomeStartsWith(plugins, PACKAGE_NAME)
        anti == SomeStartsWith(plugins, AuthPlugin)
        isObject == Truthy(liteConfig) /\ liteConfig.t \in {"arr", "obj"}
        agents == IF isObject THEN PropGet(liteConfig, <<"a", "g", "e", "n", "t", "s">>) ELSE Undefined
        models == IF Truthy(agents) THEN JArr(ModelsOf(agents)) ELSE JArr(<<>>)
        openai == SomeStartsWith(models, <<"o", "p", "e", "n", "a", "i", "/">>)
        cerebras == SomeStartsWith(models, <<"c", "e", "r", "e", "b", "r", "a", "s", "/">>)
        tmux == IF isObject THEN PropGet(liteConfig, <<"t", "m", "u", "x">>) ELSE Undefined
        enabled == /\ Truthy(tmux)
                   /\ tmux.t \in {"arr", "obj"}
                   /\ PropGet(tmux, <<"e", "n", "a", "b", "l", "e", "d">>) = JTrue
    IN  IF ~Truthy(config) THEN Detected(FALSE, FALSE, FALSE, FALSE, FALSE)
        ELSE IF "throws" \in {inst, anti, openai, cerebras} THEN DetectThrew
        ELSE Detected(inst = "true", anti = "true", openai = "true", cerebras = "true",
                      enabled)

\* config-manager.ts 440-476
detectCurrentConfig(files) ==
    DetectFrom(parseConfig(files, getExistingConfigPath(files)), parseConfig(files, "lite"))

(***************************************************************************)
(* The operations as steps over the files.  Each call runs to its return   *)
(* in one step, the values of its body computed once each and in the       *)
(* order of the code; latestVersion is what the registry lookup inside     *)
(* addAuthPlugins resolved with.                                           *)
(***************************************************************************)
MaxCalls == 3

InstallConfig(a, o, c, t) ==
    [hasAntigravity |-> a, hasOpenAI |-> o, hasCerebras |-> c, hasTmux |-> t]

InstallConfigs ==
    { InstallConfig(a, o, c, t) : a \in BOOLEAN, o \in BOOLEAN, c \in BOOLEAN, t \in BOOLEAN }

NoProviders == InstallConfig(FALSE, FALSE, FALSE, FALSE)

\* installConfig and the lookup's answer for addAuthPlugins
AuthInputs ==
    { <<NoProviders, Null>>,
      <<InstallConfig(TRUE, FALSE, FALSE, FALSE), Null>>,
      <<InstallConfig(TRUE, FALSE, FALSE, FALSE), V10>> }

ProviderInputs == { NoProviders, InstallConfig(TRUE, FALSE, FALSE, FALSE) }
ServerInputs == { NoProviders, InstallConfig(FALSE, FALSE, FALSE, TRUE) }
LiteInputs == { InstallConfig(FALSE, TRUE, FALSE, TRUE) }

CallOf(name, c) ==
    [name |-> name, hasAntigravity |-> c.hasAntigravity, hasOpenAI |-> c.hasOpenAI,
     hasCerebras |-> c.hasCerebras, hasTmux |-> c.hasTmux]

nonCfgVars == <<stripVars, chanVars, patchVars, findVars, fetchVars, lookVars>>

\* JSONC: a comment and trailing commas
JsoncText == <<"{", " ", "/", "/", " ", "p", "l", "u", "g", "i", "n", "s", "\n", " ", " ", "\"", "p", "l", "u", "g", "i", "n", "\"", ":", " ", "[", "\"", "o", "t", "h", "e", "r", "\"", ",", "]", ",", "\n", "}", "\n">>

\* the other plugins' entries of a config file that is plain JSON
ForeignOf(r) ==
    LET plugins == IF r.ok /\ r.v.t = "obj" THEN PropGet(r.v, PluginProp) ELSE Undefined
        strings == IF plugins.t = "arr"
                   THEN SelectSeq(plugins.kids, LAMBDA p : p.t = "str" /\ KeepsForeign(p))
                   ELSE <<>>
    IN  [i \in 1..Len(strings) |-> strings[i].s]

\* JsoncText, which JSON.parse rejects, holds one
ForeignEntries(text) ==
    IF text = JsoncText THEN <<OtherPlugin>>
    ELSE ForeignOf(IF text \in {Null, Directory} THEN ParseFailure ELSE JsonParse(text))

\* config-manager.ts 26-31 and 102-109: ensureConfigDir, then the body of an
\* operation up to its writeFileSync; made is what the body computed
WriteAndReturn(name, c, path, made, text) ==
    LET wrote == /\ cDir \notin {"blocked", "readonly"}
                 /\ ~made.threw
                 /\ cFiles[path] # Directory
    IN  /\ cCalls' = cCalls + 1
        /\ cDir' = IF cDir = "missing" THEN "exists" ELSE cDir
        /\ cFiles' = IF wrote THEN [cFiles EXCEPT ![path] = text] ELSE cFiles
        /\ cPrev' = cFiles
        /\ cOp' = CallOf(name, c)
        /\ cOut' = [NoOutcome EXCEPT !.success = wrote]
        /\ cAdded' = (cAdded \/ (name = "addPluginToOpenCodeConfig" /\ wrote))
        /\ cOthers' = IF name = "addPluginToOpenCodeConfig" /\ wrote /\ ~cAdded
                      THEN ForeignEntries(cFiles[path])
                      ELSE cOthers
        /\ cLite' = IF name = "writeLiteConfig" /\ wrote THEN <<c>> ELSE cLite
        /\ UNCHANGED nonCfgVars

SerializeMade(made) == IF made.threw THEN <<>> ELSE Serialize(made.v)

\* config-manager.ts 162-197
AddPluginToOpenCodeConfig ==
    /\ cCalls < MaxCalls
    /\ \E configPath \in { getExistingConfigPath(cFiles) } :
       \E parsed \in { parseConfig(cFiles, configPath) } :
       \E made \in { AddPluginValue(parsed) } :
       \E text \in { SerializeMade(made) } :
           WriteAndReturn("addPluginToOpenCodeConfig", NoProviders, configPath, made, text)

\* config-manager.ts 199-228
AddAuthPlugins(c, latestVersion) ==
    /\ cCalls < MaxCalls
    /\ \E configPath \in { getExistingConfigPath(cFiles) } :
       \E parsed \in { parseConfig(cFiles, configPath) } :
       \E made \in { AddAuthValue(parsed, c, latestVersion) } :
       \E text \in { SerializeMade(made) } :
           WriteAndReturn("addAuthPlugins", c, configPath, made, text)

\* config-manager.ts 266-288
AddProviderConfig(c) ==
    /\ cCalls < MaxCalls
    /\ \E configPath \in { getExistingConfigPath(cFiles) } :
       \E parsed \in { parseConfig(cFiles, configPath) } :
       \E made \in { AddProviderValue(parsed, c) } :
       \E text \in { SerializeMade(made) } :
           WriteAndReturn("addProviderConfig", c, configPath, made, text)

\* config-manager.ts 293-318
AddServerConfig(c) ==
    /\ cCalls < MaxCalls
    /\ \E configPath \in { getExistingConfigPath(cFiles) } :
       \E parsed \in { parseConfig(cFiles, configPath) } :
       \E made \in { AddServerValue(parsed, c) } :
       \E text \in { SerializeMade(made) } :
           WriteAndReturn("addServerConfig", c, configPath, made, text)

\* config-manager.ts 417-438
DisableDefaultAgents ==
    /\ cCalls < MaxCalls
    /\ \E configPath \in { getExistingConfigPath(cFiles) } :
       \E parsed \in { parseConfig(cFiles, configPath) } :
       \E made \in { DisableAgentsValue(parsed) } :
       \E text \in { SerializeMade(made) } :
           WriteAndReturn("disableDefaultAgents", NoProviders, configPath, made, text)

\* config-manager.ts 397-412
WriteLiteConfig(c) ==
    /\ cCalls < MaxCalls
    /\ \E made \in { Done(generateLiteConfig(c)) } :
       \E text \in { SerializeMade(made) } :
           WriteAndReturn("writeLiteConfig", c, "lite", made, text)

\* config-manager.ts 440-476: no try around the body, what it throws leaves it
DetectCurrentConfig ==
    /\ cCalls < MaxCalls
    /\ cCalls' = cCalls + 1
    /\ cOp' = CallOf("detectCurrentConfig", NoProviders)
    /\ cOut' = detectCurrentConfig(cFiles)
    /\ cPrev' = cFiles
    /\ UNCHANGED <<cDir, cFiles, cAdded, cOthers, cLite>>
    /\ UNCHANGED nonCfgVars

(***************************************************************************)
(* The config files the operations may find.                               *)
(***************************************************************************)
CfgEmpty == JObj(<<>>)
CfgPinned == JObj(<<
      JMem(<<"p", "l", "u", "g", "i", "n">>, JArr(<<
          JStr(<<"o", "t", "h", "e", "r">>),
          JStr(<<"o", "h", "-", "m", "y", "-", "o", "p", "e", "n", "c", "o", "d", "e", "-", "s", "l", "i", "m", "@", "1", ".", "0">>),
          JStr(<<"l", "a", "s", "t">>)>>))>>)
CfgBare == JObj(<<
      JMem(<<"p", "l", "u", "g", "i", "n">>, JArr(<<
          JStr(<<"o", "h", "-", "m", "y", "-", "o", "p", "e", "n", "c", "o", "d", "e", "-", "s", "l", "i", "m">>),
          JStr(<<"o", "t", "h", "e", "r">>)>>)),
      JMem(<<"s", "e", "r", "v", "e", "r">>, JObj(<<
          JMem(<<"p", "o", "r", "t">>, JNum(<<"8", "0", "8", "0">>))>>))>>)
CfgPath == JObj(<<
      JMem(<<"p", "l", "u", "g", "i", "n">>, JArr(<<
          JStr(<<"C", ":", "\\">>),
          JStr(<<"f", "i", "l", "e", ":", "/", "/", "x">>)>>))>>)
CfgPluginString == JObj(<<
      JMem(<<"p", "l", "u", "g", "i", "n">>, JStr(<<"o", "t", "h", "e", "r">>))>>)
CfgPluginNumber == JObj(<<
      JMem(<<"p", "l", "u", "g", "i", "n">>, JArr(<<
          JStr(<<"o", "t", "h", "e", "r">>),
          JNum(<<"5">>)>>))>>)
CfgOddFields == JObj(<<
      JMem(<<"p", "r", "o", "v", "i", "d", "e", "r">>, JStr(<<"g", "o", "o", "g", "l", "e">>)),
      JMem(<<"s", "e", "r", "v", "e", "r">>, JNum(<<"1">>)),
      JMem(<<"a", "g", "e", "n", "t">>, JTrue)>>)

\* opencode.json alone
MainTexts ==
    { Serialize(CfgEmpty), Serialize(CfgPinned), Serialize(CfgBare), Serialize(CfgPath),
      Serialize(CfgPluginString), Serialize(CfgPluginNumber), Serialize(CfgOddFields),
      JsoncText, <<>>, <<SP, NL>>, <<"{">>, Directory }

\* opencode.json, when opencode.jsonc is there as well
MainTextsBesideJsonc == { Null, <<"{">>, Serialize(CfgEmpty) }

InitFiles(main, mainc, lite, litec) ==
    [f \in FileNames |-> IF f = "json" THEN main
                         ELSE IF f = "jsonc" THEN mainc
                         ELSE IF f = "lite" THEN lite
                         ELSE litec]

\* the directory exists with the files in it; a directory without files may
\* be missing, and may be impossible to create; one is read-only
InitialDirs ==
    { <<"exists", InitFiles(main, Null, Null, Null)>> : main \in MainTexts }
    \cup { <<"exists", InitFiles(main, JsoncText, Null, Null)>> : main \in MainTextsBesideJsonc }
    \cup { <<d, NoFiles>> : d \in {"exists", "missing", "blocked"} }
    \cup { <<"readonly", InitFiles(Serialize(CfgPinned), Null, Null, Null)>> }

InitCalls ==
    /\ cCalls = 0 /\ cOp = NoCall /\ cOut = NoOutcome /\ cPrev = NoFiles
    /\ cAdded = FALSE /\ cOthers = <<>> /\ cLite = <<>>
    /\ StripIdle
    /\ ChanIdle
    /\ PatchIdle
    /\ FindIdle
    /\ FetchIdle
    /\ LookIdle

InitConfig ==
    /\ \E d \in InitialDirs : cDir = d[1] /\ cFiles = d[2]
    /\ InitCalls

NextConfig ==
    \/ AddPluginToOpenCodeConfig
    \/ \E in \in AuthInputs : AddAuthPlugins(in[1], in[2])
    \/ \E c \in ProviderInputs : AddProviderConfig(c)
    \/ \E c \in ServerInputs : AddServerConfig(c)
    \/ DisableDefaultAgents
    \/ \E c \in LiteInputs : WriteLiteConfig(c)
    \/ DetectCurrentConfig

SpecConfig == InitConfig /\ [][NextConfig]_vars

\* C12: no exported operation raises an exception to its caller, whatever the
\* state of the config files and of the directory: each returns a value.
C12_NothingThrown == ~cOut.threw

\* a is b with some of its elements left out
IsSubSeq(a, b) ==
    \E f \in [1..Len(a) -> 1..Len(b)] :
        /\ \A i \in 1..Len(a) : b[f[i]] = a[i]
        /\ \A i, j \in 1..Len(a) : i < j => f[i] < f[j]

\* the config file the operations write to, as JSON.parse reads it
WrittenConfig ==
    LET text == cFiles[getExistingConfigPath(cFiles)]
    IN  IF text \in {Null, Directory} THEN ParseFailure ELSE JsonParse(text)

\* its plugin array
WrittenPlugins ==
    IF WrittenConfig.ok /\ WrittenConfig.v.t = "obj"
    THEN PropGet(WrittenConfig.v, PluginProp)
    ELSE Undefined

\* what addPluginToOpenCodeConfig, called now, writes
SecondCallText ==
    LET configPath == getExistingConfigPath(cFiles)
        made == AddPluginValue(parseConfig(cFiles, configPath))
    IN  IF made.threw THEN Null ELSE SerializeMade(made)

\* C14: after addPluginToOpenCodeConfig succeeds, and after any further
\* calls of the five operations that write the config, the plugin array of
\* the written config holds exactly one entry that is the package name or
\* name@version, that entry is the bare package name, and the other plugin
\* entries the file held before are all still there in their order; a
\* second addPluginToOpenCodeConfig call, made right after a successful one,
\* writes the text the file already has.
C14_OneBareEntry ==
    /\ cAdded
       => /\ WrittenPlugins.t = "arr"
          /\ \A i \in 1..Len(WrittenPlugins.kids) : WrittenPlugins.kids[i].t = "str"
          /\ SelectSeq(WrittenPlugins.kids, IsOwnEntry) = <<JStr(PACKAGE_NAME)>>
          /\ IsSubSeq(cOthers, ForeignOf(WrittenConfig))
    /\ (cOp.name = "addPluginToOpenCodeConfig" /\ cOut.success)
       => SecondCallText = cFiles[getExistingConfigPath(cFiles)]

(***************************************************************************)
(* The install state written to the lite config and read back: the         *)
(* installer calls writeLiteConfig with its InstallConfig, and a later run *)
(* calls detectCurrentConfig.                                              *)
(***************************************************************************)
MaxLiteCalls == 2

\* the text null, which JSON.parse reads as the value null
NullText == <<"n", "u", "l", "l">>

\* opencode.json before the lite config is written
LiteMainTexts ==
    { Null, Serialize(CfgEmpty), Serialize(CfgBare), Serialize(CfgPinned),
      Serialize(CfgPath), Serialize(CfgPluginString), Serialize(CfgPluginNumber),
      JsoncText, NullText }

\* oh-my-opencode-slim.json before it is written: absent, left by an older
\* version with a model that is no string, cut short, or a directory
OldLiteTexts ==
    { Null,
      Serialize(JObj(<<JMem(<<"a", "g", "e", "n", "t", "s">>,
                          JObj(<<JMem(<<"o", "r", "a", "c", "l", "e">>,
                                     JObj(<<JMem(<<"m", "o", "d", "e", "l">>, JNum(<<"5">>))>>))>>))>>)),
      <<"{">>,
      Directory }

InitLite ==
    /\ \/ /\ cDir = "exists"
          /\ \E main \in LiteMainTexts, lite \in OldLiteTexts :
                 cFiles = InitFiles(main, Null, lite, Null)
       \/ /\ cDir \in {"missing", "blocked"}
          /\ cFiles = NoFiles
    /\ InitCalls

NextLite ==
    \/ \E c \in InstallConfigs : cCalls < MaxLiteCalls /\ WriteLiteConfig(c)
    \/ cCalls < MaxLiteCalls /\ DetectCurrentConfig

SpecLite == InitLite /\ [][NextLite]_vars

\* the main config file exists and is JSON, or the JSONC text
MainParses ==
    LET text == cFiles[getExistingConfigPath(cFiles)]
    IN  /\ text \notin {Null, Directory}
        /\ (text = JsoncText \/ JsonParse(text).ok)

\* C15: for each of the 16 combinations c of the four flags, when
\* writeLiteConfig(c) has succeeded and the main config file exists and
\* parses, detectCurrentConfig returns and reports hasOpenAI, hasCerebras
\* and hasTmux as they are in c.
C15_LiteRoundTrip ==
    (/\ cOp.name = "detectCurrentConfig"
     /\ cLite # <<>>
     /\ MainParses)
    => /\ ~cOut.threw
       /\ cOut.hasOpenAI = cLite[1].hasOpenAI
       /\ cOut.hasCerebras = cLite[1].hasCerebras
       /\ cOut.hasTmux = cLite[1].hasTmux

====
